---- MODULE Spec2Model ----
(***************************************************************************)
(* WebSocketPriceService (src/ui/src/lib/WebSocketPriceService.ts) as a    *)
(* state machine.  The service runs on a single-threaded event loop: every *)
(* action below is one macrotask (an API call, a socket event handler, a   *)
(* timer callback) run to completion, including the callbacks it invokes   *)
(* and whatever those callbacks call back into the service.                *)
(*                                                                         *)
(* Handlers are written as operators over a record S that holds the        *)
(* service's fields and the runtime objects it created (sockets, timers);  *)
(* an action applies a handler to the current state and commits the        *)
(* result.                                                                 *)
(*                                                                         *)
(* Numbers: prices and timestamps are integers; NaN is a reserved value.   *)
(* A mean price is kept as an exact fraction [num, den] (floating-point    *)
(* rounding is not modelled).                                              *)
(***************************************************************************)
EXTENDS Integers, Sequences, FiniteSets, TLC

\* ------------------------------------------------------------------ bounds
MaxSockets == 4         \* sockets created in one run
ResubSockets == 7       \* sockets created in one run, repeated subscriptions
ResubDisconnects == 1   \* disconnect() calls, repeated subscriptions
LiveSockets == 5        \* sockets created in one run, reconnection runs
LiveRegs == 1           \* callback registrations, reconnection runs
LiveDisconnects == 1    \* disconnect() calls, reconnection runs
MaxTimers == 2          \* reconnect timers created in one run
MaxDisconnects == 2     \* disconnect() calls made outside callbacks
MaxAdvances == 2        \* clock advances in one run
DeliveryRegs == 3       \* callback registrations, delivery runs
DeliveryFrames == 2     \* frames received, delivery runs
DeliveryDisconnects == 1 \* disconnect() calls made outside callbacks, delivery runs
HandleRegs == 3         \* callback registrations, handle runs
HandleCalls == 2        \* calls of one unsubscribe handle, handle runs
HandleFrames == 2       \* frames received, handle runs
HandleDisconnects == 1  \* disconnect() calls, handle runs
FusionRegs == 1         \* callback registrations, fusion runs
FusionFrames == 3       \* frames received, fusion runs
ConfidenceFrames == 2   \* frames received, confidence runs
SymbolRegs == 2         \* callback registrations, symbol runs
SymbolFrames == 2       \* frames received, symbol runs
IsolationSockets == 5   \* sockets constructed, isolation runs
IsolationFrames == 2    \* frames received, isolation runs
IsolationRegs == 2      \* callback registrations, isolation runs
ShutdownSockets == 4    \* sockets constructed, shutdown runs
ShutdownRegs == 2       \* callback registrations, shutdown runs
ShutdownCalls == 1      \* calls of one unsubscribe handle, shutdown runs
ShutdownDisconnects == 2 \* disconnect() calls, shutdown runs
FallbackSockets == 3    \* sockets constructed, fallback runs
FallbackEffects == 1    \* effect runs, fallback runs
FallbackFrames == 2     \* frames received, fallback runs
FallbackFetches == 2    \* fallback fetches started, fallback runs
EffectSockets == 6      \* sockets constructed, effect runs
EffectEffects == 2      \* effect runs, effect runs
EffectFrames == 1       \* frames received, effect runs
EffectFetches == 1      \* fallback fetches started, effect runs
ConnectSockets == 4     \* sockets constructed, connect runs
ConnectRegs == 1        \* callback registrations, connect runs

\* ------------------------------------------------------- program constants
FreshnessMs == 30000
BackoffBaseMs == 1000
BackoffCapMs == 30000
CleanCloseCode == 1000
AbnormalCloseCode == 1006
AggregatedCap == 95
AggregatedBonus == 10
UpdateIntervalMs == 30000
MaxStalenessMs == 60000
FallbackDelayMs == 2000

\* IEEE NaN (parseFloat of a missing or non-numeric field, undefined - n, ...)
NaN == 0 - 1000000000

IsNaN(x) == x = NaN

Abs(x) == IF x < 0 THEN 0 - x ELSE x

Min(a, b) == IF a < b THEN a ELSE b

Max(a, b) == IF a > b THEN a ELSE b

RECURSIVE Pow2(_)
Pow2(n) == IF n <= 0 THEN 1 ELSE 2 * Pow2(n - 1)

\* ------------------------------------------------------- ConnectionState
DISCONNECTED == "disconnected"
CONNECTING == "connecting"
CONNECTED == "connected"
RECONNECTING == "reconnecting"
ERROR == "error"

ConnectionState == {DISCONNECTED, CONNECTING, CONNECTED, RECONNECTING, ERROR}

\* ------------------------------------------------------------- exchanges
\* The registry: names in declaration order, priority, and the part of each
\* symbolMapping that the modelled symbols use (BTC: all three; MATIC:
\* binance and coinbase; NEAR: binance only; DOGE: none).
exchanges == <<"binance", "coinbase", "kraken">>

ExchangeNames == {exchanges[i] : i \in 1..Len(exchanges)}

priority(ex) == CASE ex = "binance" -> 1 [] ex = "coinbase" -> 2 [] ex = "kraken" -> 3

symbolMapping(ex) ==
  CASE ex = "binance" -> <<<<"BTC", "BTCUSDT">>, <<"MATIC", "MATICUSDT">>, <<"NEAR", "NEARUSDT">>>>
    [] ex = "coinbase" -> <<<<"BTC", "BTC-USD">>, <<"MATIC", "MATIC-USD">>>>
    [] ex = "kraken" -> <<<<"BTC", "XBT/USD">>>>

Symbols == {"BTC", "MATIC", "NEAR", "DOGE"}

\* exchange.symbolMapping[symbol]: the native name, or "" for undefined
mapped(ex, symbol) ==
  LET m == symbolMapping(ex)
      hit == {i \in 1..Len(m) : m[i][1] = symbol}
  IN IF hit = {} THEN "" ELSE m[CHOOSE i \in hit : TRUE][2]

\* findOriginalSymbol: first entry, in declaration order, whose native name matches
findOriginalSymbol(exchangeName, exchangeSymbol) ==
  IF exchangeName \notin ExchangeNames THEN ""
  ELSE LET m == symbolMapping(exchangeName)
           hit == {i \in 1..Len(m) : m[i][2] = exchangeSymbol}
       IN IF hit = {} THEN ""
          ELSE m[CHOOSE i \in hit : \A j \in hit : i <= j][1]

\* [...this.exchanges].sort((a, b) => a.priority - b.priority)
RECURSIVE sortByPriority(_)
sortByPriority(names) ==
  IF names = {} THEN <<>>
  ELSE LET first == CHOOSE n \in names : \A m \in names : priority(n) <= priority(m)
       IN <<first>> \o sortByPriority(names \ {first})

sortedExchanges == sortByPriority(ExchangeNames)

\* ---------------------------------------------------------------- frames
\* A raw JSON field: missing, a non-numeric text, or a number (or numeric text).
Missing == [k |-> "missing", v |-> 0]

Text == [k |-> "text", v |-> 0]

Num(n) == [k |-> "num", v |-> n]

\* parseFloat / ToNumber of a raw field
parseFloat(raw) == IF raw.k = "num" THEN raw.v ELSE NaN

\* An inbound frame (event.data):
\*   shape "notjson"  JSON.parse throws
\*         "null"     the JSON text null
\*         "other"    a JSON object that is no ticker of any exchange
\*         "binance"  {e: '24hrTicker', s, c, E, ...}
\*         "coinbase" {type: 'ticker', product_id, price, time, ...}
\*         "kraken"   [id, {c: [price, ...]}, 'ticker', pair]
\*   s: native symbol; c: price field; t: time field (binance E, coinbase time)
Frame(shape, s, c, t) == [shape |-> shape, s |-> s, c |-> c, t |-> t]

NoUpdate == [symbol |-> "", price |-> 0, timestamp |-> 0, source |-> "",
             latency |-> 0, confidence |-> 0]

IsUpdate(u) == u.symbol # ""

\* A parser's outcome: threw (an exception), or update (NoUpdate for null)
Parsed(u) == [threw |-> FALSE, update |-> u]

Threw == [threw |-> TRUE, update |-> NoUpdate]

parseBinanceMessage(data, t) ==
  IF data.shape = "null" THEN Threw        \* null.e: TypeError
  ELSE IF data.shape = "binance"
  THEN LET originalSymbol == findOriginalSymbol("binance", data.s)
       IN IF originalSymbol # ""
          THEN Parsed([symbol |-> originalSymbol, price |-> parseFloat(data.c),
                       timestamp |-> parseFloat(data.t), source |-> "binance",
                       latency |-> 0, confidence |-> 95])
          ELSE Parsed(NoUpdate)
  ELSE Parsed(NoUpdate)

parseCoinbaseMessage(data, t) ==
  IF data.shape = "null" THEN Threw        \* null.type: TypeError
  ELSE IF data.shape = "coinbase"
  THEN LET originalSymbol == findOriginalSymbol("coinbase", data.s)
       IN IF originalSymbol # ""
          THEN Parsed([symbol |-> originalSymbol, price |-> parseFloat(data.c),
                       timestamp |-> parseFloat(data.t), source |-> "coinbase",
                       latency |-> 0, confidence |-> 90])
          ELSE Parsed(NoUpdate)
  ELSE Parsed(NoUpdate)

\* data[1] is the ticker object; a missing price field stands for a frame
\* whose data[1].c is absent (parseFloat(undefined) || 0)
parseKrakenMessage(data, t) ==
  IF data.shape = "kraken"
  THEN LET originalSymbol == findOriginalSymbol("kraken", data.s)
           p == parseFloat(data.c)
       IN IF originalSymbol # ""
          THEN Parsed([symbol |-> originalSymbol,
                       price |-> IF IsNaN(p) THEN 0 ELSE p,
                       timestamp |-> t, source |-> "kraken",
                       latency |-> 0, confidence |-> 80])
          ELSE Parsed(NoUpdate)
  ELSE Parsed(NoUpdate)

\* exchange.messageParser: t is Date.now()
messageParser(ex, data, t) ==
  CASE ex = "binance" -> parseBinanceMessage(data, t)
    [] ex = "coinbase" -> parseCoinbaseMessage(data, t)
    [] ex = "kraken" -> parseKrakenMessage(data, t)

\* ------------------------------------------------------------- confidence
\* mutant: slow frames are not penalised
calculateConfidenceFlat(exchange, latency) ==
  LET base == CASE exchange = "binance" -> 95
                [] exchange = "coinbase" -> 90
                [] exchange = "kraken" -> 80
                [] OTHER -> 70
  IN Max(10, Min(100, IF latency < 100 THEN base + 5 ELSE base))

\* mutant: the score is capped at 95, the cap of an aggregated tick
calculateConfidenceCapped(exchange, latency) ==
  LET base == CASE exchange = "binance" -> 95
                [] exchange = "coinbase" -> 90
                [] exchange = "kraken" -> 80
                [] OTHER -> 70
      adj == IF latency < 100 THEN base + 5
             ELSE IF latency > 1000 THEN base - 10
             ELSE IF latency > 500 THEN base - 5
             ELSE base
  IN Max(10, Min(AggregatedCap, adj))


calculateConfidence(exchange, latency) ==
  LET base == CASE exchange = "binance" -> 95
                [] exchange = "coinbase" -> 90
                [] exchange = "kraken" -> 80
                [] OTHER -> 70
      adj == IF latency < 100 THEN base + 5
             ELSE IF latency > 1000 THEN base - 10
             ELSE IF latency > 500 THEN base - 5
             ELSE base
  IN Max(10, Min(100, adj))

\* ------------------------------------------------------------ aggregation
\* The price cache is a Map: a sequence of updates in insertion order, at most
\* one per key `${symbol}_${source}`.  Symbols contain no '_', so
\* key.startsWith(symbol + '_') is equality of the symbol.
cacheIndex(cache, symbol, source) ==
  {i \in 1..Len(cache) : cache[i].symbol = symbol /\ cache[i].source = source}

\* Map.set: replace in place when the key exists, append otherwise
cacheSet(cache, update) ==
  LET hit == cacheIndex(cache, update.symbol, update.source)
  IN IF hit = {} THEN Append(cache, update)
     ELSE [cache EXCEPT ![CHOOSE i \in hit : TRUE] = update]

\* mutant: no tick ever expires
isFreshForever(update, t) == TRUE

\* Date.now() - update.timestamp < 30000 (false when the timestamp is NaN)
isFresh(update, t) == ~IsNaN(update.timestamp) /\ t - update.timestamp < FreshnessMs

collectSources(cache, symbol, t) ==
  SelectSeq(cache, LAMBDA u : u.symbol = symbol /\ isFresh(u, t))

\* sources.sort((a, b) => b.confidence - a.confidence)[0]: the sort is stable,
\* so the first element is the earliest-inserted one of maximal confidence
primaryOf(sources) ==
  sources[CHOOSE i \in 1..Len(sources) :
            /\ \A j \in 1..Len(sources) : sources[j].confidence <= sources[i].confidence
            /\ \A j \in 1..(i - 1) : sources[j].confidence < sources[i].confidence]

\* prices.reduce((a, b) => a + b): NaN as soon as one price is NaN
RECURSIVE sumPrices(_)
sumPrices(sources) ==
  IF Len(sources) = 0 THEN 0
  ELSE LET rest == sumPrices(Tail(sources))
       IN IF IsNaN(Head(sources).price) \/ IsNaN(rest) THEN NaN
          ELSE Head(sources).price + rest

\* mutant: the threshold dropped, any deviation from the mean counts
deviatesAtAll(primaryPrice, sum, n) ==
  IF IsNaN(sum) \/ IsNaN(primaryPrice) THEN FALSE
  ELSE IF sum = 0 THEN primaryPrice # 0
  ELSE IF sum < 0 THEN FALSE
  ELSE Abs(primaryPrice * n - sum) > 0

\* Math.abs(primary.price - avgPrice) / avgPrice > 0.005 with avgPrice = sum / n:
\* NaN compares false; x / 0 is +Infinity for x > 0 and NaN for x = 0; a negative
\* mean makes the quotient <= 0
deviates(primaryPrice, sum, n) ==
  IF IsNaN(sum) \/ IsNaN(primaryPrice) THEN FALSE
  ELSE IF sum = 0 THEN primaryPrice # 0
  ELSE IF sum < 0 THEN FALSE
  ELSE Abs(primaryPrice * n - sum) * 1000 > 5 * sum

\* The aggregator's result: an update whose price is the fraction num / den
Fused(u, num, den, source, confidence) ==
  [symbol |-> u.symbol, price |-> [num |-> num, den |-> den],
   timestamp |-> u.timestamp, source |-> source, latency |-> u.latency,
   confidence |-> confidence]

NoFused == Fused(NoUpdate, 0, 1, "", 0)

\* mutant: the aggregate's confidence is not capped
aggregateUncapped(cache, symbol, t) ==
  LET sources == collectSources(cache, symbol, t)
  IN IF Len(sources) = 0 THEN NoFused
     ELSE LET primary == primaryOf(sources)
              sum == sumPrices(sources)
          IN IF Len(sources) > 1 /\ deviates(primary.price, sum, Len(sources))
             THEN Fused(primary, sum, Len(sources), "aggregated",
                        primary.confidence + AggregatedBonus)
             ELSE Fused(primary, primary.price, 1, primary.source, primary.confidence)

aggregatePriceData(cache, symbol, t) ==
  LET sources == collectSources(cache, symbol, t)
  IN IF Len(sources) = 0 THEN NoFused
     ELSE LET primary == primaryOf(sources)
              sum == sumPrices(sources)
          IN IF Len(sources) > 1 /\ deviates(primary.price, sum, Len(sources))
             THEN Fused(primary, sum, Len(sources), "aggregated",
                        Min(AggregatedCap, primary.confidence + AggregatedBonus))
             ELSE Fused(primary, primary.price, 1, primary.source, primary.confidence)

\* -------------------------------------------------------------- callbacks
\* Callback functions a consumer registers; what each does when invoked:
\*   cbA, cbB       return
\*   cbUnsubSelf    invoke the unsubscribe handle of its own registration
\*   cbUnsubA       invoke the unsubscribe handle of cbA's registration
\*   cbDisconnect   call service.disconnect()
Callbacks == {"cbA", "cbB", "cbUnsubSelf", "cbUnsubA", "cbDisconnect"}

\* A registration: the function, and (history) its number and the number of
\* disconnect() calls made before it
Entry(fn, reg, epoch) == [fn |-> fn, reg |-> reg, epoch |-> epoch]

regsOf(arr) == [i \in 1..Len(arr) |-> arr[i].reg]

\* callbacks.indexOf(callback): first position holding that function, 0 for -1
indexOf(arr, fn) ==
  LET hit == {i \in 1..Len(arr) : arr[i].fn = fn}
  IN IF hit = {} THEN 0 ELSE CHOOSE i \in hit : \A j \in hit : i <= j

\* callbacks.splice(index, 1)
splice(arr, index) == [i \in 1..(Len(arr) - 1) |-> IF i < index THEN arr[i] ELSE arr[i + 1]]

\* ----------------------------------------------------------- service state
\* A ConnectionStatus without its lastUpdate stamp (Date.now(), read by nothing
\* in the service)
NoStatus == [state |-> "none", latency |-> 0, reconnectAttempts |-> 0, error |-> "none"]

\* the status table before any adapter has an entry
NoStatuses == [ex \in ExchangeNames |-> NoStatus]

\* One delivery (a forEach over a callback list), as history, with the value
\* the callbacks are passed: the fused tick, or the snapshot
\* Array.from(this.connectionStatus.values()) taken before the loop; a status
\* notification with no subscriber is not recorded
Delivery(kind, sym, arr, tick, statuses) ==
  [kind |-> kind, sym |-> sym, before |-> regsOf(arr), invoked |-> <<>>,
   remaining |-> <<>>, unsub |-> FALSE, late |-> FALSE, tick |-> tick,
   statuses |-> statuses]

\* the unsubscribe closure returned by onPriceUpdate(symbol, callback)
unsubscribePrice(S, symbol, callback) ==
  LET callbacks == S.priceCallbacks[symbol]
      index == indexOf(callbacks, callback)
  IN IF index > 0 THEN [S EXCEPT !.priceCallbacks[symbol] = splice(callbacks, index)]
     ELSE S

\* the unsubscribe closure returned by onStatusUpdate(callback)
unsubscribeStatus(S, callback) ==
  LET index == indexOf(S.statusCallbacks, callback)
  IN IF index > 0 THEN [S EXCEPT !.statusCallbacks = splice(S.statusCallbacks, index)]
     ELSE S

\* mutant: close is called on every socket of the connection table, which is
\* not emptied
disconnectReclose(S) ==
  LET closed == [i \in 1..Len(S.sockets) |->
                   IF \E ex \in ExchangeNames : S.connections[ex] = i
                   THEN [S.sockets[i] EXCEPT !.readyState = "closing", !.closeCalls = @ + 1]
                   ELSE S.sockets[i]]
      cleared == [i \in 1..Len(S.timers) |->
                    IF /\ \E ex \in ExchangeNames : S.reconnectTimers[ex] = i
                       /\ S.timers[i].state = "pending"
                    THEN [S.timers[i] EXCEPT !.state = "cleared"]
                    ELSE S.timers[i]]
  IN [S EXCEPT !.sockets = closed,
               !.timers = cleared,
               !.connectionStatus = NoStatuses,
               !.priceCallbacks = [sym \in Symbols |-> <<>>],
               !.statusCallbacks = <<>>,
               !.reconnectTimers = [ex \in ExchangeNames |-> 0],
               !.priceCache = <<>>,
               !.subscribed = FALSE,
               !.epoch = @ + 1]

disconnect(S) ==
  LET closed == [i \in 1..Len(S.sockets) |->
                   IF /\ \E ex \in ExchangeNames : S.connections[ex] = i
                      /\ S.sockets[i].readyState = "open"
                   THEN [S.sockets[i] EXCEPT !.readyState = "closing", !.closeCalls = @ + 1]
                   ELSE S.sockets[i]]
      cleared == [i \in 1..Len(S.timers) |->
                    IF /\ \E ex \in ExchangeNames : S.reconnectTimers[ex] = i
                       /\ S.timers[i].state = "pending"
                    THEN [S.timers[i] EXCEPT !.state = "cleared"]
                    ELSE S.timers[i]]
  IN [S EXCEPT !.sockets = closed,
               !.timers = cleared,
               !.connections = [ex \in ExchangeNames |-> 0],
               !.connectionStatus = NoStatuses,
               !.priceCallbacks = [sym \in Symbols |-> <<>>],
               !.statusCallbacks = <<>>,
               !.reconnectTimers = [ex \in ExchangeNames |-> 0],
               !.priceCache = <<>>,
               !.subscribed = FALSE,
               !.epoch = @ + 1]

\* The body of callback fn, invoked during delivery d of list ctx ("status",
\* or the symbol of a price list)
runCallback(S, fn, ctx, d) ==
  LET target == IF fn = "cbUnsubSelf" THEN fn ELSE "cbA"
      marked == [S EXCEPT !.trace[d].unsub = TRUE]
  IN CASE fn \in {"cbUnsubSelf", "cbUnsubA"} ->
            IF ctx = "status" THEN unsubscribeStatus(marked, target)
            ELSE unsubscribePrice(marked, ctx, target)
       [] fn = "cbDisconnect" -> disconnect(S)
       [] OTHER -> S

invoke(S, e, d) ==
  [S EXCEPT !.trace[d].invoked = Append(@, e.reg),
            !.trace[d].late = @ \/ e.epoch < S.epoch]

\* this.statusCallbacks.forEach(callback => callback(allStatuses)): the length
\* is read once; an index no longer in the array is skipped
RECURSIVE statusForEach(_, _, _, _)
statusForEach(S, k, len, d) ==
  IF k > len THEN [S EXCEPT !.trace[d].remaining = regsOf(S.statusCallbacks)]
  ELSE IF k > Len(S.statusCallbacks) THEN statusForEach(S, k + 1, len, d)
  ELSE LET e == S.statusCallbacks[k]
       IN statusForEach(runCallback(invoke(S, e, d), e.fn, "status", d), k + 1, len, d)

\* callbacks.forEach(callback => callback(bestPrice)) over the array object
\* fetched from the Map: disconnect() empties the Map but not that array, which
\* the loop then keeps walking (attached = FALSE)
RECURSIVE priceForEach(_, _, _, _, _, _, _)
priceForEach(S, symbol, arr, attached, k, len, d) ==
  LET callbacks == IF attached THEN S.priceCallbacks[symbol] ELSE arr
  IN IF k > len THEN [S EXCEPT !.trace[d].remaining = regsOf(S.priceCallbacks[symbol])]
     ELSE IF k > Len(callbacks) THEN priceForEach(S, symbol, callbacks, attached, k + 1, len, d)
     ELSE LET e == callbacks[k]
              next == runCallback(invoke(S, e, d), e.fn, symbol, d)
          IN priceForEach(next, symbol, callbacks,
                          attached /\ next.epoch = S.epoch, k + 1, len, d)

updateConnectionStatus(S, exchange, state, latency, error, reconnectAttempts) ==
  LET status == [state |-> state, latency |-> latency,
                 reconnectAttempts |-> reconnectAttempts, error |-> error]
      set == [S EXCEPT !.connectionStatus[exchange] = status]
      begun == [set EXCEPT !.trace =
                  Append(@, Delivery("status", "", S.statusCallbacks, NoFused,
                                     set.connectionStatus))]
  IN IF Len(S.statusCallbacks) = 0 THEN set
     ELSE statusForEach(begun, 1, Len(begun.statusCallbacks), Len(begun.trace))

handlePriceUpdate(S, update) ==
  LET cached == [S EXCEPT !.priceCache = cacheSet(@, update)]
      callbacks == cached.priceCallbacks[update.symbol]
      bestPrice == aggregatePriceData(cached.priceCache, update.symbol, S.now)
  IN IF bestPrice # NoFused
     THEN LET begun == [cached EXCEPT !.trace =
                          Append(@, Delivery("price", update.symbol, callbacks, bestPrice,
                                             NoStatuses))]
          IN priceForEach(begun, update.symbol, callbacks, TRUE, 1, Len(callbacks),
                          Len(begun.trace))
     ELSE cached

\* mutant: the service gives up after the first reconnect of a streak
scheduleReconnectionCapped(S, exchangeName, symbols) ==
  LET status == S.connectionStatus[exchangeName]
      attempts == IF status # NoStatus THEN status.reconnectAttempts + 1 ELSE 1
      delay == Min(BackoffBaseMs * Pow2(attempts - 1), BackoffCapMs)
      timer == [ex |-> exchangeName, symbols |-> symbols, attempts |-> attempts,
                delay |-> delay, due |-> S.now + delay, state |-> "pending",
                streak |-> S.failStreak[exchangeName] + 1]
  IN IF S.failStreak[exchangeName] >= 1 THEN S
     ELSE [S EXCEPT !.timers = Append(@, timer),
                    !.reconnectTimers[exchangeName] = Len(S.timers) + 1,
                    !.failStreak[exchangeName] = @ + 1]

scheduleReconnection(S, exchangeName, symbols) ==
  LET status == S.connectionStatus[exchangeName]
      attempts == IF status # NoStatus THEN status.reconnectAttempts + 1 ELSE 1
      delay == Min(BackoffBaseMs * Pow2(attempts - 1), BackoffCapMs)
      timer == [ex |-> exchangeName, symbols |-> symbols, attempts |-> attempts,
                delay |-> delay, due |-> S.now + delay, state |-> "pending",
                streak |-> S.failStreak[exchangeName] + 1]
  IN [S EXCEPT !.timers = Append(@, timer),
               !.reconnectTimers[exchangeName] = Len(S.timers) + 1,
               !.failStreak[exchangeName] = @ + 1]

\* throws: whether new WebSocket(url) raises
connectToExchange(S, exchangeName, symbols, throws) ==
  LET connecting == updateConnectionStatus(S, exchangeName, CONNECTING, 0, "none", 0)
      ws == [ex |-> exchangeName, symbols |-> symbols, readyState |-> "connecting",
             closeCalls |-> 0, sent |-> <<>>, code |-> 0]
  IN IF throws
     THEN scheduleReconnection(
            updateConnectionStatus(connecting, exchangeName, ERROR, 0, "connect", 0),
            exchangeName, symbols)
     ELSE [connecting EXCEPT !.sockets = Append(@, ws),
                             !.connections[exchangeName] = Len(connecting.sockets) + 1]

\* mutant: adapters that support none of the symbols are skipped
RECURSIVE connectSupporting(_, _, _, _)
connectSupporting(S, order, symbols, failing) ==
  IF order = <<>> THEN S
  ELSE IF \A i \in 1..Len(symbols) : mapped(Head(order), symbols[i]) = ""
  THEN connectSupporting(S, Tail(order), symbols, failing)
  ELSE connectSupporting(
         connectToExchange(S, Head(order), symbols, Head(order) \in failing),
         Tail(order), symbols, failing)

\* mutant: a connection that cannot be established ends the loop (subscribe
\* rejects)
RECURSIVE connectAllOrReject(_, _, _, _)
connectAllOrReject(S, order, symbols, failing) ==
  IF order = <<>> THEN S
  ELSE IF Head(order) \in failing
  THEN connectToExchange(S, Head(order), symbols, TRUE)
  ELSE connectAllOrReject(connectToExchange(S, Head(order), symbols, FALSE),
                          Tail(order), symbols, failing)

RECURSIVE connectAll(_, _, _, _)
connectAll(S, order, symbols, failing) ==
  IF order = <<>> THEN S
  ELSE connectAll(connectToExchange(S, Head(order), symbols, Head(order) \in failing),
                  Tail(order), symbols, failing)

\* The awaits between the connectToExchange calls resume in microtasks, ahead
\* of every socket event and timer
subscribe(S, symbols, failing) ==
  connectAll([S EXCEPT !.subscribed = TRUE], sortedExchanges, symbols, failing)

\* one name of a subscription message: binance names the stream
\* `${native.toLowerCase()}@ticker`, coinbase and kraken the native symbol
Named(ex, native) ==
  [native |-> native, lower |-> ex = "binance",
   suffix |-> IF ex = "binance" THEN "@ticker" ELSE ""]

\* exchange.subscriptionMessage(availableSymbols): the names requested, in the
\* order of the symbols: map through the adapter's symbolMapping, filter(Boolean)
subscriptionMessage(ex, symbols) ==
  LET native == [i \in 1..Len(symbols) |-> mapped(ex, symbols[i])]
      kept == SelectSeq(native, LAMBDA n : n # "")
  IN [i \in 1..Len(kept) |-> Named(ex, kept[i])]

\* mutant: the subscription is sent whether or not a symbol is available
wsOnOpenUnchecked(S, id) ==
  LET exchangeName == S.sockets[id].ex
      symbols == S.sockets[id].symbols
      opened == updateConnectionStatus([S EXCEPT !.failStreak[exchangeName] = 0],
                                       exchangeName, CONNECTED, 0, "none", 0)
      availableSymbols == SelectSeq(symbols, LAMBDA sym : mapped(exchangeName, sym) # "")
  IN [opened EXCEPT !.sockets[id].sent =
        Append(@, subscriptionMessage(exchangeName, availableSymbols))]

wsOnOpen(S, id) ==
  LET exchangeName == S.sockets[id].ex
      symbols == S.sockets[id].symbols
      opened == updateConnectionStatus([S EXCEPT !.failStreak[exchangeName] = 0],
                                       exchangeName, CONNECTED, 0, "none", 0)
      availableSymbols == SelectSeq(symbols, LAMBDA sym : mapped(exchangeName, sym) # "")
  IN IF Len(availableSymbols) > 0
     THEN [opened EXCEPT !.sockets[id].sent =
             Append(@, subscriptionMessage(exchangeName, availableSymbols))]
     ELSE opened

\* mutant: a frame that fails to parse marks the connection as in error
wsOnMessageStrict(S, id, data, latency) ==
  LET exchangeName == S.sockets[id].ex
      parsed == IF data.shape = "notjson" THEN Threw
                ELSE messageParser(exchangeName, data, S.now)
  IN IF ~parsed.threw /\ IsUpdate(parsed.update)
     THEN LET enhancedUpdate == [parsed.update EXCEPT
                                   !.source = exchangeName,
                                   !.latency = latency,
                                   !.confidence = calculateConfidence(exchangeName, latency)]
          IN updateConnectionStatus(handlePriceUpdate(S, enhancedUpdate),
                                    exchangeName, CONNECTED, latency, "none", 0)
     ELSE IF parsed.threw
     THEN updateConnectionStatus(S, exchangeName, ERROR, 0, "ws", 0)
     ELSE S

wsOnMessage(S, id, data, latency) ==
  LET exchangeName == S.sockets[id].ex
      parsed == IF data.shape = "notjson" THEN Threw
                ELSE messageParser(exchangeName, data, S.now)
  IN IF ~parsed.threw /\ IsUpdate(parsed.update)
     THEN LET enhancedUpdate == [parsed.update EXCEPT
                                   !.source = exchangeName,
                                   !.latency = latency,
                                   !.confidence = calculateConfidence(exchangeName, latency)]
          IN updateConnectionStatus(handlePriceUpdate(S, enhancedUpdate),
                                    exchangeName, CONNECTED, latency, "none", 0)
     ELSE S

\* mutant: a transport error on one socket marks every adapter as in error
wsOnErrorAll(S, id) ==
  [updateConnectionStatus(S, S.sockets[id].ex, ERROR, 0, "ws", 0)
     EXCEPT !.connectionStatus = [ex \in ExchangeNames |->
              [state |-> ERROR, latency |-> 0, reconnectAttempts |-> 0, error |-> "ws"]]]

\* mutant: a transport error is handled as a failed connection
wsOnErrorReconnect(S, id) ==
  scheduleReconnection(updateConnectionStatus(S, S.sockets[id].ex, ERROR, 0, "ws", 0),
                       S.sockets[id].ex, S.sockets[id].symbols)

wsOnError(S, id) ==
  updateConnectionStatus(S, S.sockets[id].ex, ERROR, 0, "ws", 0)

wsOnClose(S, id, code) ==
  LET exchangeName == S.sockets[id].ex
      closed == updateConnectionStatus(S, exchangeName, DISCONNECTED, 0, "none", 0)
  IN IF code # CleanCloseCode
     THEN scheduleReconnection(closed, exchangeName, S.sockets[id].symbols)
     ELSE closed

\* the setTimeout callback of scheduleReconnection
reconnectTimerFired(S, t, throws) ==
  LET timer == S.timers[t]
      reconnecting == updateConnectionStatus(S, timer.ex, RECONNECTING, 0, "", timer.attempts)
  IN connectToExchange(reconnecting, timer.ex, timer.symbols, throws)

onPriceUpdate(S, symbol, callback) ==
  [S EXCEPT !.priceCallbacks[symbol] = Append(@, Entry(callback, S.nextReg, S.epoch)),
            !.nextReg = @ + 1]

\* The callback is called before the unsubscribe closure is returned: in that
\* first call cbUnsubSelf has no handle of its own registration to invoke yet.
onStatusUpdate(S, callback) ==
  LET e == Entry(callback, S.nextReg, S.epoch)
      pushed == [S EXCEPT !.statusCallbacks = Append(@, e),
                          !.nextReg = @ + 1,
                          !.trace = Append(@, Delivery("initial", "", <<e>>, NoFused,
                                                      S.connectionStatus))]
      d == Len(pushed.trace)
      called == IF callback = "cbUnsubSelf" THEN invoke(pushed, e, d)
                ELSE runCallback(invoke(pushed, e, d), callback, "status", d)
  IN [called EXCEPT !.trace[d].remaining = regsOf(called.statusCallbacks)]

\* ------------------------------------------------------------------ state
VARIABLES
  sockets,           \* every WebSocket the service constructed: ex, symbols (the
                     \* handlers' closure), readyState, closeCalls, sent, code
                     \* (of its close event, 0 before)
  timers,            \* every setTimeout of scheduleReconnection: ex, symbols,
                     \* attempts, delay, due, state (pending / fired / cleared),
                     \* and (history) streak: the failStreak it was scheduled at
  connections,       \* this.connections: exchange -> socket (0: no entry)
  connectionStatus,  \* this.connectionStatus: exchange -> status (NoStatus: no entry)
  priceCallbacks,    \* this.priceCallbacks: symbol -> registrations
  statusCallbacks,   \* this.statusCallbacks
  reconnectTimers,   \* this.reconnectTimers: exchange -> timer (0: no entry)
  priceCache,        \* this.priceCache, in insertion order
  now,               \* Date.now()
  failStreak,        \* history: exchange -> reconnects scheduled since its last open
  subscribed,        \* history: subscribe() was called since the last disconnect()
  epoch,             \* history: disconnect() invocations so far
  nextReg,           \* history: number of the next registration
  handles,           \* history: the unsubscribe handle of each registration, by
                     \* registration number: the list and function its closure
                     \* holds, and how often a consumer has called it
  trace,             \* history: the deliveries made in the last step
  lastFrame,         \* history: the last frame received, its socket and latency
  frames,            \* history: frames received
  advances,          \* history: clock advances
  hooks,             \* useRealTimePrices, per consumer: the prices state, the
                     \* fallbackInterval and unsubscribeFunctions refs, and
                     \* (history) whether its effect is in place and where each
                     \* stored price came from
  hookTimers,        \* every setInterval / setTimeout of the hook: kind, owner,
                     \* due, state (set / cleared / done)
  startups,          \* every startWebSocketConnections call: owner, the
                     \* unsubscribes it collected, state (awaiting subscribe / done)
  fetches            \* every fetchFallbackPrices call: owner, state (flight / done),
                     \* and (history) the symbols whose price its response
                     \* replaced (applied) and left alone (declined)

vars == <<sockets, timers, connections, connectionStatus, priceCallbacks,
          statusCallbacks, reconnectTimers, priceCache, now, failStreak, subscribed,
          epoch, nextReg, handles, trace, lastFrame, frames, advances,
          hooks, hookTimers, startups, fetches>>

\* the state of the hooks
hookVars == <<hooks, hookTimers, startups, fetches>>

NoFrame == Frame("", "", Missing, Missing)

\* A RealTimePrice as the hook stores it (change24h and volume24h, which
\* nothing reads, left out); it has no source field
RealTimePrice(symbol, price, timestamp) ==
  [symbol |-> symbol, price |-> price, timestamp |-> timestamp]

\* prev[symbol] is undefined
NoPrice == RealTimePrice("", 0, 0)

\* The components that use the hook, each with symbols = ['BTC'] and the
\* default config (hybrid, fallback enabled)
Consumers == {"A", "B"}

HookSymbols == <<"BTC">>

\* a hook before its first effect; origin is history: what stored each price
NoHook ==
  [prices |-> [sym \in Symbols |-> NoPrice],
   origin |-> [sym \in Symbols |-> "none"],
   connectionStatuses |-> NoStatuses,
   isWebSocketActive |-> FALSE,
   fallbackInterval |-> 0,
   unsubscribeFunctions |-> <<>>,
   active |-> FALSE]

\* the closure onPriceUpdate / onStatusUpdate returns: it holds the list (a
\* symbol, or "status") and the callback function, nothing else
Handle(list, fn) == [list |-> list, fn |-> fn, calls |-> 0]

Received(id, data, latency) == [id |-> id, data |-> data, latency |-> latency]

\* the service as a handler sees it; each handler starts with an empty trace
Cur ==
  [sockets |-> sockets, timers |-> timers, connections |-> connections,
   connectionStatus |-> connectionStatus, priceCallbacks |-> priceCallbacks,
   statusCallbacks |-> statusCallbacks, reconnectTimers |-> reconnectTimers,
   priceCache |-> priceCache, now |-> now, failStreak |-> failStreak,
   subscribed |-> subscribed, epoch |-> epoch, nextReg |-> nextReg, trace |-> <<>>]

Commit(R) ==
  /\ sockets' = R.sockets
  /\ timers' = R.timers
  /\ connections' = R.connections
  /\ connectionStatus' = R.connectionStatus
  /\ priceCallbacks' = R.priceCallbacks
  /\ statusCallbacks' = R.statusCallbacks
  /\ reconnectTimers' = R.reconnectTimers
  /\ priceCache' = R.priceCache
  /\ failStreak' = R.failStreak
  /\ subscribed' = R.subscribed
  /\ epoch' = R.epoch
  /\ nextReg' = R.nextReg
  /\ trace' = R.trace

\* the service right after construction
constructed ==
  [sockets |-> <<>>, timers |-> <<>>,
   connections |-> [ex \in ExchangeNames |-> 0],
   connectionStatus |-> NoStatuses,
   priceCallbacks |-> [sym \in Symbols |-> <<>>],
   statusCallbacks |-> <<>>,
   reconnectTimers |-> [ex \in ExchangeNames |-> 0],
   priceCache |-> <<>>, now |-> 0,
   failStreak |-> [ex \in ExchangeNames |-> 0],
   subscribed |-> FALSE, epoch |-> 0, nextReg |-> 1, trace |-> <<>>]

\* the state is R, with nothing received and no time passed yet
StartsAs(R) ==
  /\ sockets = R.sockets
  /\ timers = R.timers
  /\ connections = R.connections
  /\ connectionStatus = R.connectionStatus
  /\ priceCallbacks = R.priceCallbacks
  /\ statusCallbacks = R.statusCallbacks
  /\ reconnectTimers = R.reconnectTimers
  /\ priceCache = R.priceCache
  /\ now = R.now
  /\ failStreak = R.failStreak
  /\ subscribed = R.subscribed
  /\ epoch = R.epoch
  /\ nextReg = R.nextReg
  /\ trace = <<>>
  /\ handles = <<>>
  /\ lastFrame = Received(0, NoFrame, 0)
  /\ frames = 0
  /\ advances = 0
  /\ hooks = [c \in Consumers |-> NoHook]
  /\ hookTimers = <<>>
  /\ startups = <<>>
  /\ fetches = <<>>

Init == StartsAs(constructed)

\* ---------------------------------------------------------------- actions
\* service.subscribe(symbols); failing: the exchanges whose constructor raises
Subscribe(symbolLists, failSets, maxSockets) ==
  \E symbols \in symbolLists, failing \in failSets :
    /\ Len(sockets) + Len(exchanges) - Cardinality(failing) <= maxSockets
    /\ Len(timers) + Cardinality(failing) <= MaxTimers
    /\ Commit(subscribe(Cur, symbols, failing))
    /\ UNCHANGED <<hookVars, now, handles, lastFrame, frames, advances>>

\* the open event of a connecting socket
WsOpen(exchangeSet) ==
  \E id \in 1..Len(sockets) :
    /\ sockets[id].ex \in exchangeSet
    /\ sockets[id].readyState = "connecting"
    /\ Commit(wsOnOpen([Cur EXCEPT !.sockets[id].readyState = "open"], id))
    /\ UNCHANGED <<hookVars, now, handles, lastFrame, frames, advances>>

\* a message event of an open socket
WsMessage(frameSet, latencies, limit) ==
  \E id \in 1..Len(sockets), data \in frameSet, latency \in latencies :
    /\ sockets[id].readyState = "open"
    /\ frames < limit
    /\ frames' = frames + 1
    /\ lastFrame' = Received(id, data, latency)
    /\ Commit(wsOnMessage(Cur, id, data, latency))
    /\ UNCHANGED <<hookVars, now, handles, advances>>

\* an error event of a socket that has not closed
WsError(exchangeSet) ==
  \E id \in 1..Len(sockets) :
    /\ sockets[id].ex \in exchangeSet
    /\ sockets[id].readyState # "closed"
    /\ Commit(wsOnError(Cur, id))
    /\ UNCHANGED <<hookVars, now, handles, lastFrame, frames, advances>>

\* the close event of a socket: clean (1000) only once the connection was
\* open; abnormal (1006) in any state
WsClose(exchangeSet) ==
  \E id \in 1..Len(sockets), code \in {CleanCloseCode, AbnormalCloseCode} :
    /\ sockets[id].ex \in exchangeSet
    /\ sockets[id].readyState # "closed"
    /\ code = CleanCloseCode => sockets[id].readyState \in {"open", "closing"}
    /\ code # CleanCloseCode => Len(timers) < MaxTimers
    /\ Commit(wsOnClose([Cur EXCEPT !.sockets[id].readyState = "closed",
                                    !.sockets[id].code = code], id, code))
    /\ UNCHANGED <<hookVars, now, handles, lastFrame, frames, advances>>

\* a pending reconnect timer comes due
ReconnectTimer(throwChoices, maxSockets) ==
  \E t \in 1..Len(timers), throws \in throwChoices :
    /\ timers[t].state = "pending"
    /\ now >= timers[t].due
    /\ IF throws THEN Len(timers) < MaxTimers ELSE Len(sockets) < maxSockets
    /\ Commit(reconnectTimerFired([Cur EXCEPT !.timers[t].state = "fired"], t, throws))
    /\ UNCHANGED <<hookVars, now, handles, lastFrame, frames, advances>>

\* service.disconnect(), or the cleanup function subscribe returned
Disconnect(limit) ==
  /\ epoch < limit
  /\ Commit(disconnect(Cur))
  /\ UNCHANGED <<hookVars, now, handles, lastFrame, frames, advances>>

OnPriceUpdate(symbolSet, callbackSet, limit) ==
  \E symbol \in symbolSet, callback \in callbackSet :
    /\ nextReg <= limit
    /\ Commit(onPriceUpdate(Cur, symbol, callback))
    /\ handles' = Append(handles, Handle(symbol, callback))
    /\ UNCHANGED <<hookVars, now, lastFrame, frames, advances>>

OnStatusUpdate(callbackSet, limit) ==
  \E callback \in callbackSet :
    /\ nextReg <= limit
    /\ Commit(onStatusUpdate(Cur, callback))
    /\ handles' = Append(handles, Handle("status", callback))
    /\ UNCHANGED <<hookVars, now, lastFrame, frames, advances>>

\* a consumer invokes the unsubscribe handle of registration r outside any
\* delivery (limit: how often one handle is called)
Unsubscribe(limit) ==
  \E r \in 1..Len(handles) :
    /\ handles[r].calls < limit
    /\ handles' = [handles EXCEPT ![r].calls = @ + 1]
    /\ Commit(IF handles[r].list = "status" THEN unsubscribeStatus(Cur, handles[r].fn)
              ELSE unsubscribePrice(Cur, handles[r].list, handles[r].fn))
    /\ UNCHANGED <<hookVars, now, lastFrame, frames, advances>>

\* time passes
Advance(steps) ==
  \E d \in steps :
    /\ advances < MaxAdvances
    /\ advances' = advances + 1
    /\ now' = now + d
    /\ trace' = <<>>
    /\ UNCHANGED <<sockets, timers, connections, connectionStatus, priceCallbacks,
                   statusCallbacks, reconnectTimers, priceCache, failStreak,
                   subscribed, epoch, nextReg, handles, lastFrame, frames, hookVars>>

\* ------------------------------------------------------------- connection
\* Connection management: subscriptions, every socket and timer event, the
\* clock, shutdown.
ConnSymbols == {<<"BTC">>}

Next ==
  \/ Subscribe(ConnSymbols, {{}}, MaxSockets)
  \/ WsOpen(ExchangeNames)
  \/ WsError(ExchangeNames)
  \/ WsClose(ExchangeNames)
  \/ ReconnectTimer({FALSE, TRUE}, MaxSockets)
  \/ Disconnect(MaxDisconnects)
  \/ Advance({BackoffBaseMs})

Spec == Init /\ [][Next]_vars

\* ---------------------------------------------------------- reconnection
\* Reconnection under the event loop's scheduling: time passes, and a timer
\* that is due runs (weak fairness of each timer's callback, its enabling
\* condition Due written out).  A status subscriber watches; the binance
\* connection fails, before and after it opens, and the constructor fails too.
\* timer t can run: it is set and due
Due(t) ==
  /\ t <= Len(timers)
  /\ timers[t].state = "pending"
  /\ now >= timers[t].due
  /\ Len(sockets) < LiveSockets \/ Len(timers) < MaxTimers

\* the step in which timer t runs
TimerRuns(t) == t <= Len(timers) /\ timers[t].state = "pending" /\ timers'[t].state = "fired"

NextLive ==
  \/ Subscribe(ConnSymbols, {{}}, MaxSockets)
  \/ OnStatusUpdate({"cbA"}, LiveRegs)
  \/ WsOpen({"binance"})
  \/ WsClose({"binance"})
  \/ ReconnectTimer({FALSE, TRUE}, LiveSockets)
  \/ Disconnect(LiveDisconnects)
  \/ Advance({BackoffBaseMs})

SpecLive ==
  /\ Init
  /\ [][NextLive]_vars
  /\ WF_vars(Advance({BackoffBaseMs}))
  /\ \A t \in 1..MaxTimers : []<>(~Due(t)) \/ []<><<TimerRuns(t)>>_vars

\* ----------------------------------------------------------- resubscribe
\* Repeated subscriptions: subscribe is called again while the sockets of the
\* earlier call exist, with or without a disconnect between the calls; the
\* binance sockets of both calls open and close, their reconnect timers fire
\* (the other adapters' sockets stay as subscribe left them).
NextResubscribe ==
  \/ Subscribe(ConnSymbols, {{}}, ResubSockets - 1)
  \/ WsOpen({"binance"})
  \/ WsClose({"binance"})
  \/ ReconnectTimer({FALSE}, ResubSockets)
  \/ Disconnect(ResubDisconnects)
  \/ Advance({BackoffBaseMs})

SpecResubscribe == Init /\ [][NextResubscribe]_vars

\* ----------------------------------------------------------------- streams
\* The service has subscribed to BTC and its three sockets are open.
RECURSIVE openAll(_, _)
openAll(S, id) ==
  IF id > Len(S.sockets) THEN S
  ELSE openAll(wsOnOpen([S EXCEPT !.sockets[id].readyState = "open"], id), id + 1)

streaming == openAll(subscribe(constructed, <<"BTC">>, {}), 1)

InitStreaming == StartsAs(streaming)

\* --------------------------------------------------------------- delivery
\* Delivery to subscribers while streaming: registrations of every kind of
\* callback on the BTC list and the status list, frames of every shape,
\* transport errors, unsubscription from inside a delivery, and shutdown from
\* inside and outside a delivery.
DeliveryInputs ==
  {Frame("binance", "BTCUSDT", Num(50000), Num(0)),
   Frame("binance", "DOGEUSDT", Num(50000), Num(0)),
   Frame("coinbase", "BTC-USD", Num(50100), Num(0)),
   Frame("notjson", "", Missing, Missing),
   Frame("null", "", Missing, Missing),
   Frame("other", "", Missing, Missing)}

NextDelivery ==
  \/ WsMessage(DeliveryInputs, {0}, DeliveryFrames)
  \/ WsError({"binance"})
  \/ OnPriceUpdate({"BTC"}, Callbacks, DeliveryRegs)
  \/ OnStatusUpdate(Callbacks, DeliveryRegs)
  \/ Disconnect(DeliveryDisconnects)

SpecDelivery == InitStreaming /\ [][NextDelivery]_vars

\* ---------------------------------------------------------------- handles
\* Unsubscribe handles while streaming: consumers register plain callbacks,
\* the same function more than once, on the BTC list and the status list, and
\* call the handles they were given, each more than once, between ticks and
\* around a shutdown.
HandleInputs == {Frame("binance", "BTCUSDT", Num(50000), Num(0))}

NextHandles ==
  \/ WsMessage(HandleInputs, {0}, HandleFrames)
  \/ OnPriceUpdate({"BTC"}, {"cbA", "cbB"}, HandleRegs)
  \/ OnStatusUpdate({"cbA"}, HandleRegs)
  \/ Unsubscribe(HandleCalls)
  \/ Disconnect(HandleDisconnects)

SpecHandles == InitStreaming /\ [][NextHandles]_vars

\* ----------------------------------------------------------------- fusion
\* Decoding and aggregation while streaming: ticker frames with usable and
\* unusable price and time fields arrive at several latencies while the clock
\* moves past the freshness window.
FusionInputs ==
  {Frame("binance", "BTCUSDT", c, t) :
     c \in {Missing, Num(0), Num(50000), Num(50400), Num(60000)},
     t \in {Missing, Num(0)}}
  \cup {Frame("coinbase", "BTC-USD", Num(c), Num(0)) :
          c \in {50000, 50100, 60000, 0 - 50000}}
  \cup {Frame("kraken", "XBT/USD", c, Missing) : c \in {Missing, Num(60000)}}

FusionLatencies == {0, 1500}

NextFusion ==
  \/ WsMessage(FusionInputs, FusionLatencies, FusionFrames)
  \/ OnPriceUpdate({"BTC"}, {"cbA"}, FusionRegs)
  \/ Advance({FreshnessMs})

SpecFusion == InitStreaming /\ [][NextFusion]_vars

\* ---------------------------------------------------------------- symbols
\* Symbol coverage: subscribe is called with symbols all, some or none of the
\* adapters support; the sockets open; consumers register for supported and
\* unsupported symbols; tickers arrive, one for a pair no adapter maps.
SymbolLists == {<<"BTC">>, <<"MATIC", "BTC">>, <<"NEAR", "DOGE">>, <<"DOGE">>}

SymbolInputs ==
  {Frame("binance", "BTCUSDT", Num(50000), Num(0)),
   Frame("binance", "NEARUSDT", Num(5), Num(0)),
   Frame("binance", "DOGEUSDT", Num(1), Num(0)),
   Frame("coinbase", "DOGE-USD", Num(1), Num(0)),
   Frame("kraken", "XDG/USD", Num(1), Missing)}

NextSymbols ==
  \/ Subscribe(SymbolLists, {{}}, MaxSockets)
  \/ WsOpen(ExchangeNames)
  \/ WsMessage(SymbolInputs, {0}, SymbolFrames)
  \/ OnPriceUpdate({"NEAR", "DOGE"}, {"cbA"}, SymbolRegs)

SpecSymbols == Init /\ [][NextSymbols]_vars

\* ------------------------------------------------------------- scoring
\* Scoring while streaming: each adapter's ticker arrives after a processing
\* time on either side of every threshold of the score.
ConfidenceInputs ==
  {Frame("binance", "BTCUSDT", Num(50000), Num(0)),
   Frame("coinbase", "BTC-USD", Num(50000), Num(0)),
   Frame("kraken", "XBT/USD", Num(50000), Missing)}

ConfidenceLatencies == {0, 99, 100, 101, 499, 500, 501, 999, 1000, 1001, 1500}

NextConfidence == WsMessage(ConfidenceInputs, ConfidenceLatencies, ConfidenceFrames)

SpecConfidence == InitStreaming /\ [][NextConfidence]_vars

\* -------------------------------------------------------------- isolation
\* One adapter's events among the others': while streaming with price and
\* status subscribers, the binance connection errs and closes, cleanly or not,
\* its reconnect timers fire with the constructor working or failing, its new
\* sockets open, the kraken socket errs, and tickers and malformed frames
\* arrive on whichever socket is open.
IsolationInputs ==
  {Frame("binance", "BTCUSDT", Num(50000), Num(0)),
   Frame("coinbase", "BTC-USD", Num(50100), Num(0)),
   Frame("notjson", "", Missing, Missing),
   Frame("null", "", Missing, Missing)}

NextIsolation ==
  \/ WsMessage(IsolationInputs, {0}, IsolationFrames)
  \/ WsOpen({"binance"})
  \/ WsError({"binance", "kraken"})
  \/ WsClose({"binance"})
  \/ ReconnectTimer({FALSE, TRUE}, IsolationSockets)
  \/ OnPriceUpdate({"BTC"}, {"cbA"}, IsolationRegs)
  \/ OnStatusUpdate({"cbA"}, IsolationRegs)
  \/ Advance({BackoffBaseMs})

SpecIsolation == InitStreaming /\ [][NextIsolation]_vars

\* --------------------------------------------------------------- shutdown
\* Shutdown called again and again: after a subscription, with the binance
\* socket connecting, open, or closed with a reconnect pending, and with
\* consumers registered, disconnect() is called, and called again; consumers
\* call the unsubscribe handles they hold, before and after.
NextShutdown ==
  \/ Subscribe(ConnSymbols, {{}}, ShutdownSockets)
  \/ WsOpen({"binance"})
  \/ WsClose({"binance"})
  \/ OnPriceUpdate({"BTC"}, {"cbA"}, ShutdownRegs)
  \/ OnStatusUpdate({"cbA"}, ShutdownRegs)
  \/ Unsubscribe(ShutdownCalls)
  \/ Disconnect(ShutdownDisconnects)

SpecShutdown == Init /\ [][NextShutdown]_vars

\* ------------------------------------------------------------------- hook
\* useRealTimePrices.  handlePriceUpdate and handleStatusUpdate are
\* useCallback(..., []): one function object per consumer.
handlePriceUpdateOf(c) == IF c = "A" THEN "hookPriceA" ELSE "hookPriceB"

handleStatusUpdateOf(c) == IF c = "A" THEN "hookStatusA" ELSE "hookStatusB"

\* An entry of unsubscribeFunctions: the closure onPriceUpdate / onStatusUpdate
\* returned (its list and function), or the cleanup subscribe returned
\* (() => this.disconnect(), list "disconnect")
Unsub(list, fn) == [list |-> list, fn |-> fn]

\* handlePriceUpdate(priceUpdate): prices[symbol] is replaced unconditionally
hookHandlePriceUpdate(H, priceUpdate) ==
  [H EXCEPT !.prices[priceUpdate.symbol] =
              RealTimePrice(priceUpdate.symbol, priceUpdate.price, priceUpdate.timestamp),
            !.origin[priceUpdate.symbol] = "primary"]

\* handleStatusUpdate(statuses)
hookHandleStatusUpdate(H, statuses) ==
  [H EXCEPT !.connectionStatuses = statuses,
            !.isWebSocketActive = \E ex \in ExchangeNames : statuses[ex].state = CONNECTED]

\* mutant: the fallback price is stored whatever is there
applyFallbackAlways(H, symbol, usd, t) ==
  [H EXCEPT !.prices[symbol] = RealTimePrice(symbol, [num |-> usd, den |-> 1], t),
            !.origin[symbol] = "fallback"]

\* mutant: the fallback price is stored only while no price is
applyFallbackIfMissing(H, symbol, usd, t) ==
  IF H.prices[symbol] = NoPrice
  THEN [H EXCEPT !.prices[symbol] = RealTimePrice(symbol, [num |-> usd, den |-> 1], t),
                 !.origin[symbol] = "fallback"]
  ELSE H

\* the setPrices updater of fetchFallbackPrices for one symbol, run at time t:
\* !existing || Date.now() - existing.timestamp > maxStaleness
applyFallback(H, symbol, usd, t) ==
  LET existing == H.prices[symbol]
  IN IF \/ existing = NoPrice
        \/ ~IsNaN(existing.timestamp) /\ t - existing.timestamp > MaxStalenessMs
     THEN [H EXCEPT !.prices[symbol] = RealTimePrice(symbol, [num |-> usd, den |-> 1], t),
                    !.origin[symbol] = "fallback"]
     ELSE H

\* symbols.forEach(symbol => { if (data && data[coinId]) setPrices(...) })
RECURSIVE applyFallbacks(_, _, _, _, _)
applyFallbacks(H, symbols, data, usd, t) ==
  IF symbols = <<>> THEN H
  ELSE applyFallbacks(IF Head(symbols) \in data THEN applyFallback(H, Head(symbols), usd, t)
                      ELSE H,
                      Tail(symbols), data, usd, t)

\* The callbacks a handler invoked, as they reach the hooks: delivery d of
\* trace tr, its k-th invocation; fns gives each registration's function
RECURSIVE deliverAll(_, _, _, _, _)
deliverAll(HS, tr, fns, d, k) ==
  IF d > Len(tr) THEN HS
  ELSE IF k > Len(tr[d].invoked) THEN deliverAll(HS, tr, fns, d + 1, 1)
  ELSE LET fn == fns[tr[d].invoked[k]].fn
           next == [c \in Consumers |->
                      IF tr[d].kind = "price" /\ fn = handlePriceUpdateOf(c)
                      THEN hookHandlePriceUpdate(HS[c], tr[d].tick)
                      ELSE IF tr[d].kind # "price" /\ fn = handleStatusUpdateOf(c)
                      THEN hookHandleStatusUpdate(HS[c], tr[d].statuses)
                      ELSE HS[c]]
       IN deliverAll(next, tr, fns, d, k + 1)

\* symbols.forEach(symbol => unsubscribes.push(wsService.onPriceUpdate(symbol, ...)))
RECURSIVE registerPrices(_, _, _)
registerPrices(S, symbols, fn) ==
  IF symbols = <<>> THEN S
  ELSE registerPrices(onPriceUpdate(S, Head(symbols), fn), Tail(symbols), fn)

priceHandles(symbols, fn) == [i \in 1..Len(symbols) |-> Handle(symbols[i], fn)]

priceUnsubs(symbols, fn) == [i \in 1..Len(symbols) |-> Unsub(symbols[i], fn)]

\* subscribe(symbols) up to its first suspension: connectToExchange has no
\* await of its own, so the first adapter is connected before subscribe yields
subscribeStart(S, symbols) ==
  connectAll([S EXCEPT !.subscribed = TRUE], <<Head(sortedExchanges)>>, symbols, {})

\* the rest of subscribe, run from the microtask queue
subscribeResume(S, symbols) == connectAll(S, Tail(sortedExchanges), symbols, {})

\* one entry of unsubscribeFunctions called by the effect cleanup
runUnsub(S, u) ==
  CASE u.list = "disconnect" -> disconnect(S)
    [] u.list = "status" -> unsubscribeStatus(S, u.fn)
    [] OTHER -> unsubscribePrice(S, u.list, u.fn)

\* unsubscribeFunctions.current.forEach(unsub => unsub())
RECURSIVE runUnsubs(_, _)
runUnsubs(S, unsubs) ==
  IF unsubs = <<>> THEN S ELSE runUnsubs(runUnsub(S, Head(unsubs)), Tail(unsubs))

\* no startWebSocketConnections call is suspended at its await: the microtask
\* queue is empty, the event loop can take the next socket event or timer
Settled == \A k \in 1..Len(startups) : startups[k].state # "awaiting"

\* The effect of consumer c runs (method hybrid): startWebSocketConnections up
\* to `await wsService.subscribe(symbols)`
EffectRun(consumerSet, maxSockets, maxEffects) ==
  \E c \in consumerSet :
    LET priceFn == handlePriceUpdateOf(c)
        statusFn == handleStatusUpdateOf(c)
        R == subscribeStart(onStatusUpdate(registerPrices(Cur, HookSymbols, priceFn),
                                           statusFn), HookSymbols)
        fns == handles \o priceHandles(HookSymbols, priceFn) \o <<Handle("status", statusFn)>>
    IN /\ ~hooks[c].active
       /\ Len(startups) < maxEffects
       /\ Len(sockets) + Len(exchanges) <= maxSockets
       /\ Commit(R)
       /\ handles' = fns
       /\ hooks' = deliverAll([hooks EXCEPT ![c].active = TRUE], R.trace, fns, 1, 1)
       /\ startups' = Append(startups,
                             [owner |-> c, state |-> "awaiting",
                              unsubscribes |-> priceUnsubs(HookSymbols, priceFn)
                                                 \o <<Unsub("status", statusFn)>>])
       /\ UNCHANGED <<now, lastFrame, frames, advances, hookTimers, fetches>>

\* The oldest suspended startWebSocketConnections call resumes: the rest of
\* subscribe, unsubscribes.push(wsCleanup), unsubscribeFunctions.current =
\* unsubscribes, setInterval(fetchFallbackPrices, updateInterval),
\* setTimeout(fetchFallbackPrices, 2000)
StartupResume ==
  \E k \in 1..Len(startups) :
    LET c == startups[k].owner
        R == subscribeResume(Cur, HookSymbols)
        unsubscribes == Append(startups[k].unsubscribes, Unsub("disconnect", ""))
        interval == [kind |-> "interval", owner |-> c, due |-> now + UpdateIntervalMs,
                     state |-> "set"]
        timeout == [kind |-> "timeout", owner |-> c, due |-> now + FallbackDelayMs,
                    state |-> "set"]
    IN /\ startups[k].state = "awaiting"
       /\ \A j \in 1..(k - 1) : startups[j].state # "awaiting"
       /\ Commit(R)
       /\ startups' = [startups EXCEPT ![k].state = "done"]
       /\ hookTimers' = hookTimers \o <<interval, timeout>>
       /\ hooks' = [deliverAll(hooks, R.trace, handles, 1, 1) EXCEPT
                      ![c].unsubscribeFunctions = unsubscribes,
                      ![c].fallbackInterval = Len(hookTimers) + 1]
       /\ UNCHANGED <<now, handles, lastFrame, frames, advances, fetches>>

\* The cleanup of consumer c's effect
Cleanup(consumerSet) ==
  \E c \in consumerSet :
    LET R == runUnsubs(Cur, hooks[c].unsubscribeFunctions)
    IN /\ hooks[c].active
       /\ Commit(R)
       /\ hookTimers' = IF hooks[c].fallbackInterval # 0
                        THEN [hookTimers EXCEPT ![hooks[c].fallbackInterval].state = "cleared"]
                        ELSE hookTimers
       /\ hooks' = [hooks EXCEPT ![c].fallbackInterval = 0,
                                 ![c].unsubscribeFunctions = <<>>,
                                 ![c].active = FALSE]
       /\ UNCHANGED <<now, handles, lastFrame, frames, advances, startups, fetches>>

\* the open event of a connecting socket, with the hooks listening
HookWsOpen(exchangeSet) ==
  \E id \in 1..Len(sockets) :
    LET R == wsOnOpen([Cur EXCEPT !.sockets[id].readyState = "open"], id)
    IN /\ Settled
       /\ sockets[id].ex \in exchangeSet
       /\ sockets[id].readyState = "connecting"
       /\ Commit(R)
       /\ hooks' = deliverAll(hooks, R.trace, handles, 1, 1)
       /\ UNCHANGED <<now, handles, lastFrame, frames, advances, hookTimers, startups,
                      fetches>>

\* a message event of an open socket, with the hooks listening
HookWsMessage(frameSet, limit) ==
  \E id \in 1..Len(sockets), data \in frameSet :
    LET R == wsOnMessage(Cur, id, data, 0)
    IN /\ Settled
       /\ sockets[id].readyState = "open"
       /\ frames < limit
       /\ frames' = frames + 1
       /\ lastFrame' = Received(id, data, 0)
       /\ Commit(R)
       /\ hooks' = deliverAll(hooks, R.trace, handles, 1, 1)
       /\ UNCHANGED <<now, handles, advances, hookTimers, startups, fetches>>

\* A hook timer comes due and calls fetchFallbackPrices, which runs up to
\* `await fetch(...)`; the interval is set again
HookTimerFires(maxFetches) ==
  \E i \in 1..Len(hookTimers) :
    /\ Settled
    /\ hookTimers[i].state = "set"
    /\ now >= hookTimers[i].due
    /\ Len(fetches) < maxFetches
    /\ hookTimers' = IF hookTimers[i].kind = "interval"
                     THEN [hookTimers EXCEPT ![i].due = @ + UpdateIntervalMs]
                     ELSE [hookTimers EXCEPT ![i].state = "done"]
    /\ fetches' = Append(fetches, [owner |-> hookTimers[i].owner, state |-> "flight",
                                   applied |-> {}, declined |-> {}])
    /\ trace' = <<>>
    /\ UNCHANGED <<sockets, timers, connections, connectionStatus, priceCallbacks,
                   statusCallbacks, reconnectTimers, priceCache, failStreak, subscribed,
                   epoch, nextReg, now, handles, lastFrame, frames, advances, hooks,
                   startups>>

\* The response of a fallback fetch arrives: data is the set of symbols it
\* has a price for, usd the price; or the fetch fails (failed), which only
\* sets the error state
FetchResponds(dataSets, usdSet) ==
  \E f \in 1..Len(fetches), data \in dataSets, usd \in usdSet, failed \in BOOLEAN :
    /\ Settled
    /\ fetches[f].state = "flight"
    /\ failed => data = {}
    /\ hooks' = [hooks EXCEPT ![fetches[f].owner] =
                   applyFallbacks(@, HookSymbols, data, usd, now)]
    /\ fetches' = [fetches EXCEPT
                     ![f].state = "done",
                     ![f].applied = {sym \in data :
                        hooks'[fetches[f].owner].prices[sym] # hooks[fetches[f].owner].prices[sym]},
                     ![f].declined = {sym \in data :
                        hooks'[fetches[f].owner].prices[sym] = hooks[fetches[f].owner].prices[sym]}]
    /\ trace' = <<>>
    /\ UNCHANGED <<sockets, timers, connections, connectionStatus, priceCallbacks,
                   statusCallbacks, reconnectTimers, priceCache, failStreak, subscribed,
                   epoch, nextReg, now, handles, lastFrame, frames, advances,
                   hookTimers, startups>>

\* --------------------------------------------------------------- fallback
\* Degraded mode: one consumer's effect has run; kraken, whose ticks carry the
\* arrival time, opens and delivers BTC tickers; time passes up to and beyond
\* the staleness threshold; the delayed fetch and the interval poll fire and
\* their responses arrive, with a BTC price, without one, or not at all.
FallbackInputs == {Frame("kraken", "XBT/USD", Num(50000), Missing)}

NextFallback ==
  \/ EffectRun({"A"}, FallbackSockets, FallbackEffects)
  \/ StartupResume
  \/ HookWsOpen({"kraken"})
  \/ HookWsMessage(FallbackInputs, FallbackFrames)
  \/ HookTimerFires(FallbackFetches)
  \/ FetchResponds({{}, {"BTC"}}, {49000})
  \/ Settled /\ Advance({UpdateIntervalMs, MaxStalenessMs + 1000})

SpecFallback == Init /\ [][NextFallback]_vars

\* ---------------------------------------------------------------- effects
\* Effect lifecycle: two consumers of the shared service; an effect runs, its
\* start-up resumes after the await, its cleanup runs (before or after the
\* resumption), the effect runs again; binance opens and delivers a BTC trade;
\* the delayed fetch comes due.
EffectInputs == {Frame("binance", "BTCUSDT", Num(50000), Num(0))}

NextEffects ==
  \/ EffectRun(Consumers, EffectSockets, EffectEffects)
  \/ StartupResume
  \/ Cleanup(Consumers)
  \/ HookWsOpen({"binance"})
  \/ HookWsMessage(EffectInputs, EffectFrames)
  \/ HookTimerFires(EffectFetches)
  \/ FetchResponds({{"BTC"}}, {49000})
  \/ Settled /\ Advance({FallbackDelayMs})

SpecEffects == Init /\ [][NextEffects]_vars


\* ---------------------------------------------------------------- connect
\* Connecting: subscribe is called with the WebSocket constructor throwing for
\* any of the adapters, while a status subscriber watches; binance opens;
\* reconnect timers run, the constructor throwing again or not.
NextConnect ==
  \/ Subscribe(ConnSymbols, SUBSET ExchangeNames, ConnectSockets)
  \/ OnStatusUpdate({"cbA"}, ConnectRegs)
  \/ WsOpen({"binance"})
  \/ ReconnectTimer({FALSE, TRUE}, ConnectSockets)
  \/ Advance({BackoffBaseMs})

SpecConnect == Init /\ [][NextConnect]_vars


\* ================================================================= claims

\* ----------------------------------------------------------------- C1
\* C1: over a run of consecutive failed connections of one adapter, the delay
\* scheduled before the k-th reconnect attempt is min(1000 * 2^(k-1), 30000) ms.
\* (streak is k: the reconnects scheduled for the adapter since its last open.)
C1_BackoffSequence ==
  \A t \in 1..Len(timers) :
    timers[t].delay = Min(BackoffBaseMs * Pow2(timers[t].streak - 1), BackoffCapMs)

\* ----------------------------------------------------------------- C2
Occurrences(seq, x) == Cardinality({i \in 1..Len(seq) : seq[i] = x})

\* C2: when a callback invokes an unsubscribe handle while a tick or a status
\* snapshot is being delivered, every callback that stays registered in that
\* list is invoked exactly once for that delivery.
C2_UnsubscribeMidDelivery ==
  \A d \in 1..Len(trace) :
    (trace[d].kind \in {"price", "status"} /\ trace[d].unsub) =>
      \A k \in 1..Len(trace[d].remaining) :
        Occurrences(trace[d].invoked, trace[d].remaining[k]) = 1

\* ----------------------------------------------------------------- C3
\* C3: once disconnect() has been invoked, no callback registered before it is
\* invoked again, wherever disconnect was invoked from.
C3_NoCallbackAfterDisconnect ==
  \A d \in 1..Len(trace) : ~trace[d].late

\* ----------------------------------------------------------------- C4
\* C4: after disconnect(), close has been invoked exactly once on every socket
\* the service created that had not already closed, open or still connecting.
C4_CloseOnDisconnect ==
  [][epoch' > epoch =>
       \A id \in 1..Len(sockets) :
         sockets[id].readyState # "closed" => sockets'[id].closeCalls = 1]_vars

\* ----------------------------------------------------------------- C5
\* C5: after disconnect() and until subscribe is called again, no reconnect
\* timer is pending and the service opens no new connection, even if sockets
\* close or fail after the disconnect.
C5_QuietAfterDisconnect ==
  [][(epoch' > 0 /\ ~subscribed') =>
       /\ \A t \in 1..Len(timers') : timers'[t].state # "pending"
       /\ ~subscribed => Len(sockets') = Len(sockets)]_vars

\* ----------------------------------------------------------------- C6
\* the transitions of the state machine; Connected -> Disconnected is the
\* clean close, which schedules no reconnect
LegalTransitions ==
  {<<DISCONNECTED, CONNECTING>>, <<CONNECTING, CONNECTED>>, <<CONNECTED, DISCONNECTED>>,
   <<CONNECTED, ERROR>>, <<CONNECTING, ERROR>>, <<CONNECTED, RECONNECTING>>,
   <<ERROR, RECONNECTING>>, <<RECONNECTING, CONNECTING>>}

\* C6: every change of an adapter's ConnectionState is one of the listed
\* transitions, and Disconnected is entered only by a clean close.
C6_LegalTransitions ==
  [][\A ex \in ExchangeNames :
       LET from == connectionStatus[ex].state
           to == connectionStatus'[ex].state
       IN (from # to /\ from # "none" /\ to # "none") =>
            /\ <<from, to>> \in LegalTransitions
            /\ to = DISCONNECTED => Len(timers') = Len(timers)]_vars

\* ------------------------------------------------------------ C7, C8, C9
\* the cached ticks of a symbol that are fresh now
FreshOf(symbol) ==
  {i \in 1..Len(priceCache) :
     /\ priceCache[i].symbol = symbol
     /\ priceCache[i].timestamp # NaN
     /\ now - priceCache[i].timestamp < FreshnessMs}

RECURSIVE PriceSum(_)
PriceSum(F) ==
  IF F = {} THEN 0
  ELSE LET i == CHOOSE x \in F : TRUE IN priceCache[i].price + PriceSum(F \ {i})

Numeric(F) == \A i \in F : priceCache[i].price # NaN

TopConfidence(F) ==
  CHOOSE c \in {priceCache[i].confidence : i \in F} :
    \A i \in F : priceCache[i].confidence <= c

\* the highest-confidence tick, the earliest-cached one on a tie
PrimaryOf(F) ==
  CHOOSE i \in F :
    \A j \in F : /\ priceCache[j].confidence <= priceCache[i].confidence
                 /\ priceCache[j].confidence = priceCache[i].confidence => i <= j

\* the tick is the mean of the fresh ticks, labelled and scored as an aggregate
IsMeanTick(tick, F) ==
  /\ Numeric(F)
  /\ tick.price.num * Cardinality(F) = PriceSum(F) * tick.price.den
  /\ tick.source = "aggregated"
  /\ tick.confidence = Min(95, TopConfidence(F) + 10)
  /\ tick.confidence <= 95

\* the tick is the cached tick i, unchanged
IsCachedTick(tick, i) ==
  /\ tick.price = [num |-> priceCache[i].price, den |-> 1]
  /\ tick.source = priceCache[i].source
  /\ tick.confidence = priceCache[i].confidence
  /\ tick.timestamp = priceCache[i].timestamp
  /\ tick.latency = priceCache[i].latency
  /\ tick.symbol = priceCache[i].symbol

\* price p differs from price q by more than 0.5% of q
Diverges(p, q) == p # NaN /\ q # NaN /\ Abs(p - q) * 1000 > 5 * Abs(q)

\* C7 as stated: when one fresh source diverges by more than 0.5% from another
\* fresh source, the fused tick emitted is the mean of all fresh prices,
\* labelled "aggregated", with confidence min(95, primary.confidence + 10).
C7_MeanOnAnyDivergence ==
  \A d \in 1..Len(trace) :
    trace[d].kind = "price" =>
      LET F == FreshOf(trace[d].sym)
      IN (/\ Cardinality(F) >= 2
          /\ \E i, j \in F : i # j /\ Diverges(priceCache[i].price, priceCache[j].price))
         => IsMeanTick(trace[d].tick, F)

\* |p - sum / n| / (sum / n) > 0.005
RatioExceeds(p, sum, n) ==
  \/ sum > 0 /\ Abs(p * n - sum) * 1000 > 5 * sum
  \/ sum = 0 /\ p # 0

\* C7 (amended): when, among at least two fresh ticks, the price of the primary
\* (the highest-confidence tick, the earliest-cached one on a tie) deviates from
\* the mean of all fresh prices by more than 0.5% of that mean, the fused tick
\* emitted is that mean, labelled "aggregated", with confidence
\* min(95, primary.confidence + 10).
C7_MeanWhenPrimaryDeviates ==
  \A d \in 1..Len(trace) :
    trace[d].kind = "price" =>
      LET F == FreshOf(trace[d].sym)
      IN (/\ Cardinality(F) >= 2
          /\ Numeric(F)
          /\ RatioExceeds(priceCache[PrimaryOf(F)].price, PriceSum(F), Cardinality(F)))
         => IsMeanTick(trace[d].tick, F)

\* 50000 and 60000 fused to 55000
C7_Witness ==
  \E d \in 1..Len(trace) :
    /\ trace[d].kind = "price"
    /\ Cardinality(FreshOf("BTC")) = 2
    /\ {priceCache[i].price : i \in FreshOf("BTC")} = {50000, 60000}
    /\ trace[d].tick.source = "aggregated"
    /\ trace[d].tick.price = [num |-> 110000, den |-> 2]

\* all fresh prices of the set agree pairwise within 0.5%
AgreeWithin(F) ==
  /\ Numeric(F)
  /\ \A i, j \in F :
       Abs(priceCache[i].price - priceCache[j].price) * 1000 <= 5 * priceCache[j].price

\* C8: when at least two fresh ticks exist for a symbol and all their prices
\* agree within 0.5%, the fused tick emitted is the highest-confidence source's
\* tick unchanged, not the mean.
C8_PrimaryWhenAgreeing ==
  \A d \in 1..Len(trace) :
    trace[d].kind = "price" =>
      LET F == FreshOf(trace[d].sym)
      IN (Cardinality(F) >= 2 /\ AgreeWithin(F)) =>
           \E i \in F : /\ priceCache[i].confidence = TopConfidence(F)
                        /\ IsCachedTick(trace[d].tick, i)

\* binance at 50000 (confidence 100) and coinbase at 50100 (95) give 50000
C8_Witness ==
  \E d \in 1..Len(trace) :
    /\ trace[d].kind = "price"
    /\ Cardinality(FreshOf("BTC")) = 2
    /\ AgreeWithin(FreshOf("BTC"))
    /\ {priceCache[i].price : i \in FreshOf("BTC")} = {50000, 50100}
    /\ trace[d].tick.price = [num |-> 50000, den |-> 1]
    /\ trace[d].tick.source = "binance"

\* C9: every tick stored in the cache or delivered to a price callback has a
\* numeric price > 0 (a ticker frame whose price field is missing, non-numeric,
\* zero or negative is rejected by the decoder).
C9_PositivePrices ==
  /\ \A i \in 1..Len(priceCache) :
       priceCache[i].price # NaN /\ priceCache[i].price > 0
  /\ \A d \in 1..Len(trace) :
       (trace[d].kind = "price" /\ Len(trace[d].invoked) > 0) =>
         trace[d].tick.price.num # NaN /\ trace[d].tick.price.num > 0

\* ----------------------------------------------------------------- C10
\* JSON.parse raises on the frame, or the adapter's decoder raises or returns null
Rejects(ex, data) ==
  \/ data.shape = "notjson"
  \/ messageParser(ex, data, now).threw
  \/ ~IsUpdate(messageParser(ex, data, now).update)

\* C10: a frame that is not valid JSON or that the adapter's decoder rejects
\* invokes no callback and changes nothing: the statuses, the cache, the
\* callback tables, the sockets and the timers are as before.
C10_RejectedFrameChangesNothing ==
  [][(frames' # frames /\ Rejects(sockets[lastFrame'.id].ex, lastFrame'.data)) =>
       /\ trace' = <<>>
       /\ UNCHANGED <<sockets, timers, connections, connectionStatus, priceCallbacks,
                      statusCallbacks, reconnectTimers, priceCache, failStreak,
                      subscribed, epoch, nextReg>>]_vars

\* a malformed frame arrived on the binance socket while it is Connected and
\* both lists have subscribers
C10_Witness ==
  /\ frames > 0
  /\ lastFrame.data.shape = "notjson"
  /\ sockets[lastFrame.id].ex = "binance"
  /\ connectionStatus["binance"].state = CONNECTED
  /\ Len(priceCallbacks["BTC"]) > 0
  /\ Len(statusCallbacks) > 0
  /\ trace = <<>>

\* ----------------------------------------------------------------- C11
\* the functions a list holds, in order
fnsOf(arr) == [i \in 1..Len(arr) |-> arr[i].fn]

\* the list without registration r
without(arr, r) == SelectSeq(arr, LAMBDA e : e.reg # r)

\* the list a handle belongs to
listOf(list, status, price) == IF list = "status" THEN status ELSE price[list]

\* C11: the unsubscribe handle of a registration removes exactly that
\* registration on its first call (nothing when a disconnect already removed
\* it), changes nothing on every later call and invokes no callback; this also
\* when one function is registered more than once on a list.  (Lists are
\* compared by the functions they hold, in order.)
C11_HandleRemovesOwnRegistration ==
  [][\A r \in 1..Len(handles) :
       handles'[r].calls = handles[r].calls + 1 =>
         LET h == handles[r]
             first == h.calls = 0
         IN /\ \A list \in Symbols \cup {"status"} :
                 fnsOf(listOf(list, statusCallbacks', priceCallbacks')) =
                   fnsOf(IF first /\ list = h.list
                         THEN without(listOf(list, statusCallbacks, priceCallbacks), r)
                         ELSE listOf(list, statusCallbacks, priceCallbacks))
            /\ trace' = <<>>]_vars

\* ----------------------------------------------------------------- C12
\* the sockets of an adapter that are connecting or open
Live(ex) ==
  {id \in 1..Len(sockets) :
     sockets[id].ex = ex /\ sockets[id].readyState \in {"connecting", "open"}}

\* the reconnect timers of an adapter that are set and have not fired
Pending(ex) ==
  {t \in 1..Len(timers) : timers[t].ex = ex /\ timers[t].state = "pending"}

\* C12: at every moment each adapter has at most one live (connecting or open)
\* socket created by the service and at most one pending reconnect timer.
C12_OneSocketOneTimer ==
  \A ex \in ExchangeNames : Cardinality(Live(ex)) <= 1 /\ Cardinality(Pending(ex)) <= 1

\* ----------------------------------------------------------------- C13
\* this step set a reconnect timer for the adapter
ScheduledFor(ex) ==
  /\ Len(timers') = Len(timers) + 1
  /\ timers'[Len(timers')].ex = ex
  /\ timers'[Len(timers')].state = "pending"
  /\ reconnectTimers'[ex] = Len(timers')

\* the timer is pending, and the clock of this run can still reach its due time
Waiting(t) ==
  /\ t <= Len(timers)
  /\ timers[t].state = "pending"
  /\ ~(advances >= MaxAdvances /\ now < timers[t].due)

ClosedCleanly(ex) ==
  connections[ex] # 0 /\ sockets[connections[ex]].code = CleanCloseCode

\* C14: when an adapter's connection closes with code 1000 the adapter becomes
\* Disconnected and no reconnect timer is set, and from then until subscribe is
\* called again no reconnect timer of that adapter runs (the service makes no
\* connection attempt for it).
C14_CleanCloseStaysClosed ==
  [][/\ \A id \in 1..Len(sockets) :
          (/\ sockets[id].readyState # "closed"
           /\ sockets'[id].readyState = "closed"
           /\ sockets'[id].code = CleanCloseCode) =>
            /\ connectionStatus'[sockets[id].ex].state = DISCONNECTED
            /\ timers' = timers
     /\ \A t \in 1..Len(timers) :
          (timers[t].state = "pending" /\ timers'[t].state = "fired") =>
            ~ClosedCleanly(timers[t].ex)]_vars

\* ----------------------------------------------------------------- C15
\* the price deliveries of the last step
PriceDeliveries == SelectSeq(trace, LAMBDA d : d.kind = "price")

\* the last step's recomputation for the symbol used the fresh ticks and only
\* them: no result when there is none, else the primary among them or their mean
Recomputed(symbol) ==
  LET F == FreshOf(symbol)
  IN IF F = {} THEN PriceDeliveries = <<>>
     ELSE /\ Len(PriceDeliveries) = 1
          /\ PriceDeliveries[1].sym = symbol
          /\ \/ IsCachedTick(PriceDeliveries[1].tick, PrimaryOf(F))
             \/ IsMeanTick(PriceDeliveries[1].tick, F)

\* the frame decodes to a tick of the symbol on that adapter
Decodes(ex, data, symbol) ==
  /\ ~Rejects(ex, data)
  /\ messageParser(ex, data, now).update.symbol = symbol

\* C15: the recomputation an ingest triggers uses exactly the cached ticks of
\* the symbol that are younger than 30 s (none: no result), and leaves the
\* cache as the ingest wrote it: every other entry is kept unchanged, expired
\* ones included, so that the result is the one a recomputation on the cache
\* it leaves behind gives at the same instant; a step that ingests nothing
\* leaves the cache alone.
C15_FreshTicksOnly ==
  [][IF frames' # frames
     THEN \A symbol \in Symbols :
            LET ex == sockets[lastFrame'.id].ex
            IN Decodes(ex, lastFrame'.data, symbol) =>
                 /\ Recomputed(symbol)'
                 /\ Len(priceCache') >= Len(priceCache)
                 /\ \A i \in 1..Len(priceCache) :
                      (priceCache[i].symbol # symbol \/ priceCache[i].source # ex)
                        => priceCache'[i] = priceCache[i]
     ELSE priceCache' = priceCache]_vars

\* an expired binance tick is still cached while the tick emitted is kraken's
C15_Witness ==
  /\ \E i \in 1..Len(priceCache) :
       /\ priceCache[i].symbol = "BTC"
       /\ priceCache[i].source = "binance"
       /\ priceCache[i].timestamp # NaN
       /\ now - priceCache[i].timestamp >= FreshnessMs
  /\ FreshOf("BTC") # {}
  /\ Len(PriceDeliveries) = 1
  /\ PriceDeliveries[1].tick.source = "kraken"

\* ----------------------------------------------------------------- C16
Base(source) ==
  CASE source = "binance" -> 95
    [] source = "coinbase" -> 90
    [] source = "kraken" -> 80
    [] OTHER -> 70

Clamp(x, lo, hi) == IF x < lo THEN lo ELSE IF x > hi THEN hi ELSE x

\* every score computed so far (the cached ticks') and the score of every
\* source, an unknown one included, at the latency last measured is
\* clamp(Base + adj, 10, 100), an integer in [10, 100]
ScoredBy(adj(_)) ==
  /\ \A i \in 1..Len(priceCache) :
       priceCache[i].confidence =
         Clamp(Base(priceCache[i].source) + adj(priceCache[i].latency), 10, 100)
  /\ \A source \in ExchangeNames \cup {"other"} :
       /\ calculateConfidence(source, lastFrame.latency) =
            Clamp(Base(source) + adj(lastFrame.latency), 10, 100)
       /\ calculateConfidence(source, lastFrame.latency) \in 10..100

\* the adjustment as stated: -5 from 500 ms to 1000 ms
AdjStated(latency) ==
  IF latency < 100 THEN 5
  ELSE IF latency > 1000 THEN 0 - 10
  ELSE IF latency >= 500 THEN 0 - 5
  ELSE 0

\* the adjustment with 500 ms itself unpenalised
AdjAbove(latency) ==
  IF latency < 100 THEN 5
  ELSE IF latency > 1000 THEN 0 - 10
  ELSE IF latency > 500 THEN 0 - 5
  ELSE 0

\* C16 as stated: the confidence is clamp(base + adj, 10, 100) with base 95 /
\* 90 / 80 / 70 (binance / coinbase / kraken / other) and adj +5 below 100 ms,
\* -5 from 500 to 1000 ms, -10 above 1000 ms, 0 otherwise.
C16_ConfidenceAsStated == ScoredBy(AdjStated)

\* C16 (amended): the same with adj -5 for a latency above 500 ms and up to
\* 1000 ms; at exactly 500 ms the adjustment is 0.
C16_Confidence == ScoredBy(AdjAbove)

\* coinbase scored at each side of the 500 ms and 1000 ms thresholds
C16_Witness ==
  /\ \E i \in 1..Len(priceCache) :
       /\ priceCache[i].source = "coinbase"
       /\ priceCache[i].latency = 500
       /\ priceCache[i].confidence = 90
  /\ \E i \in 1..Len(priceCache) :
       /\ priceCache[i].source = "kraken"
       /\ priceCache[i].latency = 1001
       /\ priceCache[i].confidence = 70

\* the adapters whose symbol map has one of the symbols
Supporting(symbols) ==
  {ex \in ExchangeNames : \E i \in 1..Len(symbols) : mapped(ex, symbols[i]) # ""}

\* the symbols no adapter maps
Unsupported == {sym \in Symbols : \A ex \in ExchangeNames : mapped(ex, sym) = ""}

\* the sockets a step constructed
Constructed == (Len(sockets) + 1)..Len(sockets')

\* nothing was cached, and no price callback list was walked, for a symbol no
\* adapter maps
NoTickUnsupported ==
  /\ \A i \in 1..Len(priceCache) : priceCache[i].symbol \notin Unsupported
  /\ \A d \in 1..Len(trace) : trace[d].kind = "price" => trace[d].sym \notin Unsupported

\* C17 (as stated): subscribe(symbols) opens a connection, and reports
\* CONNECTING, for exactly the adapters whose symbol map has at least one of
\* the symbols; a symbol no adapter supports produces no tick and no callback.
C17_ConnectsSupportingOnly ==
  /\ [][Constructed # {} =>
          LET symbols == sockets'[Len(sockets')].symbols
          IN /\ {sockets'[id].ex : id \in Constructed} = Supporting(symbols)
             /\ \A ex \in ExchangeNames :
                  connections'[ex] \in Constructed <=> ex \in Supporting(symbols)]_vars
  /\ []NoTickUnsupported

\* C17 (amended): subscribe(symbols) opens one connection, and reports
\* CONNECTING, for every adapter, in priority order, whether or not its symbol
\* map has one of the symbols; a symbol no adapter supports produces no tick
\* and no callback.
C17_ConnectsEveryAdapter ==
  /\ [][(subscribed' /\ sockets' # sockets /\ Len(timers') = Len(timers)
          /\ \A id \in 1..Len(sockets) : sockets'[id] = sockets[id]) =>
          /\ Len(sockets') = Len(sockets) + Len(sortedExchanges)
          /\ \A k \in 1..Len(sortedExchanges) :
               LET id == Len(sockets) + k
               IN /\ sockets'[id].ex = sortedExchanges[k]
                  /\ sockets'[id].readyState = "connecting"
                  /\ sockets'[id].symbols = sockets'[Len(sockets')].symbols
                  /\ connections'[sortedExchanges[k]] = id
                  /\ connectionStatus'[sortedExchanges[k]].state = CONNECTING]_vars
  /\ []NoTickUnsupported

\* subscribed to symbols one adapter or none supports; a consumer waits for
\* DOGE; every adapter has a socket, and a DOGE ticker arrived on one
C17_Witness ==
  /\ Len(sockets) = Len(exchanges)
  /\ sockets[1].symbols \in {<<"NEAR", "DOGE">>, <<"DOGE">>}
  /\ Supporting(sockets[1].symbols) # ExchangeNames
  /\ priceCallbacks["DOGE"] # <<>>
  /\ lastFrame.id > 0
  /\ lastFrame.data.s \in {"DOGEUSDT", "DOGE-USD", "XDG/USD"}
  /\ priceCache = <<>>

\* the symbols of a socket its adapter maps, in the order requested
Available(id) == SelectSeq(sockets[id].symbols, LAMBDA sym : mapped(sockets[id].ex, sym) # "")

\* the step is the open event of socket id
Opens(id) == sockets[id].readyState = "connecting" /\ sockets'[id].readyState = "open"

Kept(seq, among) == SelectSeq(seq, LAMBDA r : \E i \in 1..Len(among) : among[i] = r)

\* C19: the ingest of a decoded tick for symbol S triggers one recomputation
\* for S; when its result is non-null every callback registered for S (and
\* left registered by the callbacks that ran) is invoked exactly once with it,
\* in registration order; when it is null none is invoked; callbacks of other
\* symbols are not invoked.
C19_FanOut ==
  [][frames' # frames =>
       LET ex == sockets[lastFrame'.id].ex
           prices == SelectSeq(trace', LAMBDA d : d.kind = "price")
       IN \A symbol \in Symbols :
            Decodes(ex, lastFrame'.data, symbol) =>
              LET registered == regsOf(priceCallbacks[symbol])
                  result == aggregatePriceData(priceCache', symbol, now)
              IN /\ Len(prices) <= 1
                 /\ \A d \in 1..Len(prices) :
                      /\ prices[d].sym = symbol
                      /\ prices[d].before = registered
                      /\ prices[d].invoked = Kept(registered, prices[d].invoked)
                      /\ Kept(registered, prices[d].remaining)
                           = Kept(prices[d].invoked, prices[d].remaining)
                      /\ ~prices[d].unsub => prices[d].invoked = registered
                 /\ epoch' = epoch =>
                      IF result = NoFused THEN prices = <<>>
                      ELSE Len(prices) = 1 /\ prices[1].tick = result]_vars

\* ----------------------------------------------------------------- C20
\* the step registers a status callback
RegistersStatus ==
  /\ nextReg' = nextReg + 1
  /\ Len(handles') = Len(handles) + 1
  /\ handles'[Len(handles')].list = "status"

\* an entry written by one updateConnectionStatus call: the fields the call
\* did not pass have their defaults, nothing is carried over
WholeEntry(status) ==
  \/ status = NoStatus
  \/ /\ status.state # CONNECTED => status.latency = 0
     /\ status.state # RECONNECTING => status.reconnectAttempts = 0
     /\ status.state # ERROR => status.error \in {"none", ""}

\* C20: onStatusUpdate(cb) invokes cb exactly once before it returns, with
\* the current status table (empty when no adapter has a status); afterwards
\* every status change is notified to the registered callbacks once each, in
\* order, with the full table as that change left it, one entry replaced as a
\* whole per change.
C20_StatusSnapshots ==
  [][LET initial == SelectSeq(trace', LAMBDA d : d.kind = "initial")
         changes == SelectSeq(trace', LAMBDA d : d.kind = "status")
     IN /\ IF RegistersStatus
           THEN /\ Len(initial) = 1
                /\ changes = <<>>
                /\ initial[1].invoked = <<nextReg>>
                /\ initial[1].statuses = connectionStatus
           ELSE initial = <<>>
        /\ \A d \in 1..Len(changes) :
             LET previous == IF d = 1 THEN connectionStatus ELSE changes[d - 1].statuses
             IN /\ changes[d].invoked = Kept(changes[d].before, changes[d].invoked)
                /\ Kept(changes[d].before, changes[d].remaining)
                     = Kept(changes[d].invoked, changes[d].remaining)
                /\ (~changes[d].unsub /\ epoch' = epoch) =>
                     changes[d].invoked = changes[d].before
                /\ Cardinality({ex \in ExchangeNames :
                                  changes[d].statuses[ex] # previous[ex]}) <= 1
                /\ \A ex \in ExchangeNames : WholeEntry(changes[d].statuses[ex])
        /\ (statusCallbacks # <<>> /\ statusCallbacks' # <<>> /\ epoch' = epoch) =>
             /\ connectionStatus' # connectionStatus => changes # <<>>
             /\ changes # <<>> => changes[Len(changes)].statuses = connectionStatus'
        /\ \A ex \in ExchangeNames : WholeEntry(connectionStatus'[ex])]_vars

\* ----------------------------------------------------------------- C21
\* the cached ticks of one adapter, in cache order
CachedFrom(cache, ex) == SelectSeq(cache, LAMBDA u : u.source = ex)

\* the step leaves everything the service holds for adapter ex as it was
Untouched(ex) ==
  /\ connectionStatus'[ex] = connectionStatus[ex]
  /\ connections'[ex] = connections[ex]
  /\ reconnectTimers'[ex] = reconnectTimers[ex]
  /\ \A id \in 1..Len(sockets') :
       sockets'[id].ex = ex => id <= Len(sockets) /\ sockets'[id] = sockets[id]
  /\ \A t \in 1..Len(timers') :
       timers'[t].ex = ex => t <= Len(timers) /\ timers'[t] = timers[t]
  /\ CachedFrom(priceCache', ex) = CachedFrom(priceCache, ex)

\* C21: an event on one adapter's connection (open, error, close, reconnect
\* timer, connect failure, valid or malformed frame) leaves every other
\* adapter's status entry, sockets, reconnect timer and cached ticks unchanged;
\* and whatever state the other adapters are in, a ticker that decodes on an
\* open socket is cached and its recomputation delivered to the subscribers.
C21_AdaptersIsolated ==
  [][/\ \E ex \in ExchangeNames :
          /\ frames' # frames => ex = sockets[lastFrame'.id].ex
          /\ \A other \in ExchangeNames \ {ex} : Untouched(other)
     /\ frames' # frames =>
          LET ex == sockets[lastFrame'.id].ex
              prices == SelectSeq(trace', LAMBDA d : d.kind = "price")
          IN \A symbol \in Symbols :
               Decodes(ex, lastFrame'.data, symbol) =>
                 /\ \E i \in 1..Len(priceCache') :
                      /\ priceCache'[i].symbol = symbol
                      /\ priceCache'[i].source = ex
                      /\ priceCache'[i].price
                           = messageParser(ex, lastFrame'.data, now).update.price
                 /\ aggregatePriceData(priceCache', symbol, now) # NoFused =>
                      /\ Len(prices) = 1
                      /\ prices[1].tick = aggregatePriceData(priceCache', symbol, now)
                      /\ prices[1].invoked = regsOf(priceCallbacks[symbol])]_vars

\* binance failed twice in a row (an abnormal close, then the constructor
\* raising on the reconnect) and is in error; a coinbase ticker was just
\* delivered to a subscriber
C21_Witness ==
  /\ failStreak["binance"] >= 2
  /\ connectionStatus["binance"].state = ERROR
  /\ lastFrame.id > 0
  /\ sockets[lastFrame.id].ex = "coinbase"
  /\ \E d \in 1..Len(trace) :
       /\ trace[d].kind = "price"
       /\ trace[d].invoked # <<>>
       /\ trace[d].tick.source = "coinbase"

\* ----------------------------------------------------------------- C24
\* every table of the service is empty
Cleared ==
  /\ connections = [ex \in ExchangeNames |-> 0]
  /\ connectionStatus = NoStatuses
  /\ priceCallbacks = [sym \in Symbols |-> <<>>]
  /\ statusCallbacks = <<>>
  /\ reconnectTimers = [ex \in ExchangeNames |-> 0]
  /\ priceCache = <<>>

\* the step leaves the sockets, the timers and every table as they are
Still ==
  UNCHANGED <<sockets, timers, connections, connectionStatus, priceCallbacks,
              statusCallbacks, reconnectTimers, priceCache>>

\* C24: a disconnect() that follows a disconnect() with nothing in between
\* invokes close on no socket, clears no timer and leaves every table as the
\* first call left it; so does an unsubscribe handle called after it.
C24_DisconnectIdempotent ==
  /\ [][epoch' > epoch =>
          /\ Cleared'
          /\ LET again == disconnect(Cur')
             IN /\ again.sockets = sockets'
                /\ again.timers = timers'
                /\ again.connections = connections'
                /\ again.connectionStatus = connectionStatus'
                /\ again.priceCallbacks = priceCallbacks'
                /\ again.statusCallbacks = statusCallbacks'
                /\ again.reconnectTimers = reconnectTimers'
                /\ again.priceCache = priceCache']_vars
  /\ [][(epoch >= 1 /\ Cleared /\ epoch' > epoch) => Still]_vars
  /\ [][(epoch >= 1 /\ Cleared /\ handles' # handles /\ Len(handles') = Len(handles))
          => Still]_vars

\* disconnect() was called twice in a row on a service with a socket it closed
\* (once) and a reconnect timer it cleared, and a handle obtained before was
\* called afterwards
C24_Witness ==
  /\ epoch = 2
  /\ Cleared
  /\ \E id \in 1..Len(sockets) : sockets[id].closeCalls = 1
  /\ \E t \in 1..Len(timers) : timers[t].state = "cleared"
  /\ \E r \in 1..Len(handles) : handles[r].calls = 1

\* ----------------------------------------------------------------- C27
\* C27: after disconnect() and until the next subscribe or registration every
\* table stays empty: late events of sockets created before the disconnect
\* re-create no entry.
C27_StaysCleared ==
  [][(epoch >= 1 /\ Cleared /\ ~subscribed' /\ nextReg' = nextReg) => Cleared']_vars

\* ----------------------------------------------------------------- C28
\* C28: the reconnectAttempts of an adapter's status equals the number of
\* reconnects scheduled for it since it last became Connected: each scheduled
\* retry adds one, and only a transition to Connected resets it.
C28_AttemptsCounted ==
  /\ [](\A ex \in ExchangeNames :
         connectionStatus[ex] # NoStatus =>
           connectionStatus[ex].reconnectAttempts = failStreak[ex])
  /\ [][\A ex \in ExchangeNames :
          (/\ connectionStatus[ex] # NoStatus
           /\ connectionStatus'[ex] # NoStatus
           /\ connectionStatus'[ex].reconnectAttempts < connectionStatus[ex].reconnectAttempts)
            => connectionStatus'[ex].state = CONNECTED]_vars

\* ----------------------------------------------------------------- C29
\* what the error event of socket id does to the service as it is now
ErrorEvent(id) == wsOnError(Cur, id)

\* C29: a transport error event on an adapter's socket sets that adapter's
\* state to ERROR with an error description and notifies the status callbacks
\* with the table showing it; by itself it closes no socket and schedules no
\* reconnect, and it touches nothing else.
C29_ErrorReportedOnly ==
  \A id \in 1..Len(sockets) :
    sockets[id].readyState # "closed" =>
      LET ex == sockets[id].ex
          R == ErrorEvent(id)
      IN /\ R.connectionStatus[ex].state = ERROR
         /\ R.connectionStatus[ex].error \notin {"none", ""}
         /\ \A other \in ExchangeNames \ {ex} :
              R.connectionStatus[other] = connectionStatus[other]
         /\ R.sockets = sockets
         /\ R.timers = timers
         /\ R.connections = connections
         /\ R.reconnectTimers = reconnectTimers
         /\ R.priceCache = priceCache
         /\ R.priceCallbacks = priceCallbacks
         /\ R.statusCallbacks = statusCallbacks
         /\ IF statusCallbacks = <<>> THEN R.trace = <<>>
            ELSE /\ Len(R.trace) = 1
                 /\ R.trace[1].kind = "status"
                 /\ R.trace[1].invoked = regsOf(statusCallbacks)
                 /\ R.trace[1].statuses = R.connectionStatus

\* the open binance socket erred: binance is in error, a status subscriber was
\* told, the socket is still open and was not closed, no reconnect is scheduled
C29_Witness ==
  /\ connectionStatus["binance"].state = ERROR
  /\ connectionStatus["binance"].error = "ws"
  /\ connections["binance"] > 0
  /\ sockets[connections["binance"]].readyState = "open"
  /\ sockets[connections["binance"]].closeCalls = 0
  /\ timers = <<>>
  /\ \E d \in 1..Len(trace) :
       /\ trace[d].kind = "status"
       /\ trace[d].invoked # <<>>
       /\ trace[d].statuses["binance"].state = ERROR

\* ----------------------------------------------------------------- C30
\* C30: a frame whose native symbol maps to a canonical symbol that was not
\* in the symbols passed to subscribe is rejected: nothing is cached,
\* recomputed or delivered; a tick that is decoded carries the canonical
\* symbol the adapter's inverse symbol map gives.
C30_SubscribedSymbolsOnly ==
  [][frames' # frames =>
       LET socket == sockets[lastFrame'.id]
           canonical == findOriginalSymbol(socket.ex, lastFrame'.data.s)
           requested == {socket.symbols[i] : i \in 1..Len(socket.symbols)}
       IN /\ canonical \notin requested =>
               /\ priceCache' = priceCache
               /\ \A d \in 1..Len(trace') : trace'[d].kind # "price"
          /\ priceCache' # priceCache =>
               /\ canonical # ""
               /\ \E i \in 1..Len(priceCache') :
                    /\ priceCache'[i].symbol = canonical
                    /\ priceCache'[i].source = socket.ex]_vars

\* ----------------------------------------------------------------- C22
\* the step is the arrival of the response of a fallback fetch of consumer c
FallbackArrives(c) ==
  \E f \in 1..Len(fetches) :
    /\ fetches[f].owner = c
    /\ fetches[f].state = "flight"
    /\ fetches'[f].state = "done"

\* the fused ticks the step handed to consumer c's price handler for the symbol
TicksTo(c, symbol) ==
  {d \in 1..Len(trace') :
     /\ trace'[d].kind = "price"
     /\ trace'[d].sym = symbol
     /\ \E k \in 1..Len(trace'[d].invoked) :
          handles'[trace'[d].invoked[k]].fn = handlePriceUpdateOf(c)}

\* C22: a fallback result replaces the stored price of a symbol only if none
\* is stored or the stored one is older than the staleness threshold (60 s), so
\* a fresh primary tick is never overwritten by fallback data; a primary tick
\* that arrives always replaces the stored price, a fallback price included.
C22_FallbackOnlyWhenStale ==
  [][\A c \in Consumers, symbol \in Symbols :
       LET old == hooks[c].prices[symbol]
           new == hooks'[c].prices[symbol]
       IN /\ (FallbackArrives(c) /\ new # old) =>
               /\ old = NoPrice \/ now - old.timestamp > MaxStalenessMs
               /\ hooks'[c].origin[symbol] = "fallback"
          /\ (/\ FallbackArrives(c)
              /\ hooks[c].origin[symbol] = "primary"
              /\ now - old.timestamp <= MaxStalenessMs) =>
               /\ new = old
               /\ hooks'[c].origin[symbol] = "primary"
          /\ \A d \in TicksTo(c, symbol) :
               /\ new = RealTimePrice(symbol, trace'[d].tick.price, trace'[d].tick.timestamp)
               /\ hooks'[c].origin[symbol] = "primary"]_vars

\* a fallback price was stored while there was none; a primary tick replaced
\* it; the next fallback result found the tick fresh and was not applied
C22_Witness ==
  /\ hooks["A"].origin["BTC"] = "primary"
  /\ hooks["A"].prices["BTC"].price = [num |-> 50000, den |-> 1]
  /\ \E f, g \in 1..Len(fetches) :
       /\ f < g
       /\ fetches[f].applied = {"BTC"}
       /\ fetches[g].declined = {"BTC"}

\* ----------------------------------------------------------------- C23
\* the response arriving for consumer c in this step has a price for the symbol
ResultFor(c, symbol) ==
  \E f \in 1..Len(fetches) :
    /\ fetches[f].owner = c
    /\ fetches[f].state = "flight"
    /\ fetches'[f].state = "done"
    /\ symbol \in fetches'[f].applied \cup fetches'[f].declined

\* the stored price of the symbol is older than the staleness threshold
Stale(c, symbol) ==
  /\ hooks[c].prices[symbol] # NoPrice
  /\ now - hooks[c].prices[symbol].timestamp > MaxStalenessMs

\* the poll keeps its period whatever the sockets do: an interval that is set
\* is moved by its own firing only, one period on, and ended by nothing here
PollsOnFixedInterval ==
  \A i \in 1..Len(hookTimers) :
    hookTimers[i].kind = "interval" =>
      \/ hookTimers'[i] = hookTimers[i]
      \/ /\ hookTimers'[i] = [hookTimers[i] EXCEPT !.due = @ + UpdateIntervalMs]
         /\ now >= hookTimers[i].due
         /\ Len(fetches') = Len(fetches) + 1
         /\ UNCHANGED <<sockets, timers, connectionStatus, priceCache>>

\* the fallback result for the symbol became consumer c's stored price
Injected(c, symbol) ==
  /\ hooks'[c].prices[symbol].symbol = symbol
  /\ hooks'[c].prices[symbol].timestamp = now
  /\ hooks'[c].origin[symbol] = "fallback"
  /\ \E f \in 1..Len(fetches) : symbol \in fetches'[f].applied \ fetches[f].applied

PriceRegs(c) ==
  {<<sym, i>> \in Symbols \X (1..nextReg) :
     i <= Len(priceCallbacks[sym]) /\ priceCallbacks[sym][i].fn = handlePriceUpdateOf(c)}

StatusRegs(c) ==
  {i \in 1..Len(statusCallbacks) : statusCallbacks[i].fn = handleStatusUpdateOf(c)}

\* the interval or delayed fetch of consumer c that can still fire
PendingTimers(c) ==
  {i \in 1..Len(hookTimers) : hookTimers[i].owner = c /\ hookTimers[i].state = "set"}

\* how often delivery d invoked the price handler of consumer c
Reached(c, d) ==
  Cardinality({k \in 1..Len(trace[d].invoked) :
                 handles[trace[d].invoked[k]].fn = handlePriceUpdateOf(c)})

\* C25: whatever the interleaving of an effect's start-up with its cleanup
\* (cleanup before the start-up has finished, immediate re-run included), once
\* a consumer's effect has been cleaned up none of its price or status
\* callbacks remains in the service and none of its fallback timers (interval,
\* delayed fetch) is pending; and a fused tick reaches a consumer's handler at
\* most once per symbol.
C25_CleanupLeavesNothing ==
  /\ \A c \in Consumers :
       ~hooks[c].active =>
         /\ PriceRegs(c) = {}
         /\ StatusRegs(c) = {}
         /\ PendingTimers(c) = {}
  /\ \A c \in Consumers, d \in 1..Len(trace) :
       trace[d].kind = "price" => Reached(c, d) <= 1

\* ----------------------------------------------------------------- C26
\* the cleanup of consumer c's effect runs in this step
CleansUp(c) == hooks[c].active /\ ~hooks'[c].active

\* the entries of a callback list that are not consumer c's
OthersIn(arr, c) ==
  SelectSeq(arr, LAMBDA e : e.fn \notin {handlePriceUpdateOf(c), handleStatusUpdateOf(c)})

\* C26: the cleanup of one consumer's effect does not disconnect the shared
\* service: the sockets and the subscription are left as they are, that
\* consumer's callbacks are the only ones removed, and the other consumers'
\* price and status callbacks stay registered.
C26_CleanupSparesService ==
  [][\A c \in Consumers :
       CleansUp(c) =>
         /\ epoch' = epoch
         /\ sockets' = sockets
         /\ subscribed' = subscribed
         /\ \A sym \in Symbols :
              OthersIn(priceCallbacks'[sym], c) = OthersIn(priceCallbacks[sym], c)
         /\ OthersIn(statusCallbacks', c) = OthersIn(statusCallbacks, c)]_vars

\* ----------------------------------------------------------------- C32
\* the adapter of cached tick i comes before the adapter of cached tick j
Outranks(i, j) == priority(priceCache[i].source) < priority(priceCache[j].source)

\* the two latencies get the same adjustment of the score
SameBand(l1, l2) == AdjAbove(l1) = AdjAbove(l2)

\* C32 (as stated): of any two ticks, whatever their latencies, the one from
\* the higher-priority adapter (binance before coinbase before kraken) has the
\* strictly higher confidence.
C32_PriorityOutweighsLatency ==
  \A i, j \in 1..Len(priceCache) :
    Outranks(i, j) => priceCache[i].confidence > priceCache[j].confidence

\* C32 (amended): of any two ticks whose latencies fall in the same band
\* (below 100 ms; 100 to 500 ms; above 500 up to 1000 ms; above 1000 ms), the
\* one from the higher-priority adapter has the strictly higher confidence.
C32_PriorityWithinBand ==
  /\ \A i, j \in 1..Len(priceCache) :
       (Outranks(i, j) /\ SameBand(priceCache[i].latency, priceCache[j].latency)) =>
         priceCache[i].confidence > priceCache[j].confidence
  /\ \A ex1, ex2 \in ExchangeNames, l1, l2 \in ConfidenceLatencies :
       (priority(ex1) < priority(ex2) /\ SameBand(l1, l2)) =>
         calculateConfidence(ex1, l1) > calculateConfidence(ex2, l2)

\* a binance and a coinbase tick scored in the fast band, at different latencies
C32_Witness ==
  \E i, j \in 1..Len(priceCache) :
    /\ priceCache[i].source = "binance"
    /\ priceCache[j].source = "coinbase"
    /\ priceCache[i].latency = 99
    /\ priceCache[j].latency = 0
    /\ priceCache[i].confidence = 100
    /\ priceCache[j].confidence = 95

\* ----------------------------------------------------------------- C33
\* how many of the price deliveries of a step invoked registration r
Invocations(tr, r) ==
  Cardinality({d \in 1..Len(tr) :
                 /\ tr[d].kind = "price"
                 /\ \E k \in 1..Len(tr[d].invoked) : tr[d].invoked[k] = r})

\* the step before this one received a tick for the symbol and fused a price
\* from it while registration r was in the symbol's list
TickedBefore(symbol, r) ==
  /\ frames >= 1
  /\ Decodes(sockets[lastFrame.id].ex, lastFrame.data, symbol)
  /\ \E d \in 1..Len(trace) :
       /\ trace[d].kind = "price"
       /\ trace[d].sym = symbol
       /\ \E k \in 1..Len(trace[d].before) : trace[d].before[k] = r

\* C33: rapid updates are throttled: of N > 1 decodable ticks for a symbol
\* arriving back to back on one connection, a callback registered for the
\* symbol is invoked for at least one and for fewer than N.  (N = 2: the tick
\* of this step follows the tick of the step before, on the same socket.)
C33_RapidUpdatesThrottled ==
  [][\A symbol \in Symbols, r \in 1..nextReg :
       (/\ TickedBefore(symbol, r)
        /\ frames' = frames + 1
        /\ lastFrame'.id = lastFrame.id
        /\ Decodes(sockets[lastFrame'.id].ex, lastFrame'.data, symbol)) =>
         LET n == Invocations(trace, r) + Invocations(trace', r)
         IN n >= 1 /\ n < 2]_vars

\* ----------------------------------------------------------------- C34
\* a subscribe call runs in this step: connections are attempted, and neither
\* a reconnect timer has run nor a socket changed
Subscribes ==
  /\ Len(sockets') + Len(timers') > Len(sockets) + Len(timers)
  /\ \A t \in 1..Len(timers) : timers'[t] = timers[t]
  /\ \A i \in 1..Len(sockets) : sockets'[i] = sockets[i]

\* the status reports of a subscribe call in which the adapters of `failed`
\* could not be connected: Connecting for each adapter in turn, followed by
\* Error where the attempt failed
RECURSIVE Reports(_, _)
Reports(order, failed) ==
  IF order = <<>> THEN <<>>
  ELSE (IF Head(order) \in failed
        THEN <<[ex |-> Head(order), state |-> CONNECTING],
               [ex |-> Head(order), state |-> ERROR]>>
        ELSE <<[ex |-> Head(order), state |-> CONNECTING]>>)
       \o Reports(Tail(order), failed)

\* C34: subscribe attempts the adapters in ascending priority number, once
\* each; an attempt that cannot be established only sets that adapter's status
\* to Error and schedules its reconnect, and the adapters after it are still
\* attempted (subscribe does not reject).
C34_SubscribeAttemptsAll ==
  [][Subscribes =>
       LET newSockets == SubSeq(sockets', Len(sockets) + 1, Len(sockets'))
           newTimers == SubSeq(timers', Len(timers) + 1, Len(timers'))
           failed == {newTimers[i].ex : i \in 1..Len(newTimers)}
           reports == Reports(sortedExchanges, failed)
       IN /\ \A ex \in ExchangeNames :
               Cardinality({i \in 1..Len(newSockets) : newSockets[i].ex = ex})
                 + Cardinality({i \in 1..Len(newTimers) : newTimers[i].ex = ex}) = 1
          /\ \A i, j \in 1..Len(newSockets) :
               i < j => priority(newSockets[i].ex) < priority(newSockets[j].ex)
          /\ \A i, j \in 1..Len(newTimers) :
               i < j => priority(newTimers[i].ex) < priority(newTimers[j].ex)
          /\ \A i \in 1..Len(newSockets) :
               /\ newSockets[i].readyState = "connecting"
               /\ connections'[newSockets[i].ex] = Len(sockets) + i
               /\ connectionStatus'[newSockets[i].ex].state = CONNECTING
          /\ \A i \in 1..Len(newTimers) :
               /\ newTimers[i].state = "pending"
               /\ reconnectTimers'[newTimers[i].ex] = Len(timers) + i
               /\ connectionStatus'[newTimers[i].ex].state = ERROR
               /\ connections'[newTimers[i].ex] = connections[newTimers[i].ex]
          /\ Len(statusCallbacks) > 0 =>
               /\ Len(trace') = Len(reports)
               /\ \A d \in 1..Len(reports) :
                    trace'[d].statuses[reports[d].ex].state = reports[d].state
          /\ UNCHANGED <<priceCache, priceCallbacks, statusCallbacks, epoch>>]_vars

\* subscribe has run with a watcher registered and the binance constructor
\* throwing: binance is in Error with its reconnect pending, coinbase and
\* kraken are connecting, and four reports were made
C34_Witness ==
  /\ Len(statusCallbacks) = 1
  /\ Len(trace) = 4
  /\ Len(timers) = 1
  /\ timers[1].ex = "binance"
  /\ timers[1].state = "pending"
  /\ connectionStatus["binance"].state = ERROR
  /\ Len(sockets) = 2
  /\ sockets[1].ex = "coinbase"
  /\ sockets[2].ex = "kraken"
  /\ connectionStatus["kraken"].state = CONNECTING

\* ----------------------------------------------------------------- C31
\* the cache with the same entries in another order of first report
Reordered ==
  LET n == Len(priceCache)
  IN {[i \in 1..n |-> priceCache[p[i]]] :
        p \in {q \in [1..n -> 1..n] : \A i, j \in 1..n : q[i] = q[j] => i = j}}

\* C31: the fused tick of a symbol is a function of the set of fresh cached
\* ticks and the current time only: the price just fused is the one any other
\* order of first report of the same cached ticks yields, ties on confidence
\* included.
C31_FusedFromSetOnly ==
  \A d \in 1..Len(trace) :
    trace[d].kind = "price" =>
      \A cache \in Reordered :
        aggregatePriceData(cache, trace[d].sym, now) = trace[d].tick

====
